---- MODULE Spec2Model ----
(***************************************************************************)
(* Durable task scheduler of the payment-recovery engine: the task queue   *)
(* with its skip-locked claim, the worker loop and its task handlers, the  *)
(* janitor, the webhook ingress with its idempotency ledger, and the usage *)
(* ledger.  Time is counted in minutes.                                    *)
(***************************************************************************)
EXTENDS Integers, Sequences, FiniteSets, TLC

(* ------------------------------------------------------------------ *)
(* Program constants (minutes)                                          *)
(* ------------------------------------------------------------------ *)
ZOMBIE_THRESHOLD_MINUTES == 10
EVENT_RETENTION_MINUTES == 10080
REPORT_USAGE_INTERVAL == 5
WEEKLY_DIGEST_INTERVAL == 10080
PENDING_LOGS_LIMIT == 100
DAY == 1440

(* ------------------------------------------------------------------ *)
(* Bounds of the model                                                  *)
(* ------------------------------------------------------------------ *)
MaxTasks == 2
MaxLogs == 3
MaxTicks == 2
MaxJanitorTasks == 2
MaxJanitorLogs == 3
MaxJanitorTicks == 2
MaxWorkerTasks == 4
MaxWorkerLogs == 3
MaxWorkerTicks == 1
MaxHookTasks == 3
MaxHookLogs == 3
MaxHookTicks == 2
MaxDeliveries == 3
MaxId == 4
MaxAmount == 1
MaxEraseTasks == 2
MaxEraseLogs == 3
MaxEraseDeliveries == 1
MaxOAuthStates == 2
MaxOAuthLogs == 3
MaxTokenLen == 2
MaxIv == 1
MaxUploadTasks == 3
MaxUploadLogs == 2
MaxUploadTicks == 1
MaxGuardTasks == 2
MaxGuardLogs == 1
MaxGuardTicks == 2
MaxPostTasks == 5
MaxPostLogs == 1
MaxPostTicks == 1
MaxDelayTasks == 2
MaxDelayLogs == 3
MaxDelayTicks == 1
MaxDelayDeliveries == 2
MaxClaimTasks == 2
MaxClaimLogs == 2
MaxClaimTicks == 1
MaxClaimDeliveries == 1
MaxRunAtTasks == 1
MaxRunAtLogs == 2
MaxRunAtTicks == 1
MaxRunAtDeliveries == 1
MaxStartupTasks == 6
MaxStartupLogs == 2
MaxStartupTicks == 1
MaxIngressTasks == 2
MaxIngressLogs == 2
MaxIngressTicks == 1
MaxIngressDeliveries == 3
MaxReporterTasks == 2
MaxReporterLogs == 1
MaxReporterTicks == 3
MaxMeterTasks == 2
MaxMeterLogs == 1
MaxMeterTicks == 2
MaxLedgerLogs == 3
MaxLedgerTicks == 1

Workers == {"w1", "w2"}
ApiCallers == {"api", "api2"}
Callers == Workers \cup ApiCallers
Handlers == {"h1", "h2"}
MerchantIds == {"system", "m1", "m2"}
InvoiceEventIds == {"evt_1", "evt_2"}
SubscriptionEventIds == {"evt_3", "evt_4"}
AttemptEventIds == {"evt_a0", "evt_a1", "evt_a2", "evt_a3", "evt_a4"}
EventIds == InvoiceEventIds \cup SubscriptionEventIds \cup AttemptEventIds

NoTask == 0
Null == -1
NoEvent == "none"
Replicas == {"a", "b"}
NoTx == [pc |-> "idle", merchantId |-> "system", metricType |-> "none", amount |-> 0,
         id |-> 0, at |-> 0, raised |-> FALSE]
NoCur == [id |-> NoTask, merchantId |-> "system", taskType |-> "none", plan |-> "null",
          claimedAt |-> 0]

VARIABLES
  now,            \* the store's clock, in minutes
  ticks,          \* number of clock advances so far (bounded)
  merchants,      \* merchants table: id -> row
  tasks,          \* scheduled_tasks table: id -> row
  nextTaskId,     \* serial of scheduled_tasks
  locked,         \* task rows locked FOR UPDATE by an open claim transaction
  logs,           \* usage_logs table: id -> row
  nextLogId,      \* serial of usage_logs
  dailyMetrics,   \* daily_metrics table: <<merchant, date>> -> counters
  tx,             \* the open transaction of a createUsageLog call in progress
  res,            \* the answer to the last POST /api/tasks request
  erase,          \* the DELETE /api/admin/merchants/:id request in progress, its answer
  oauth,          \* the OAuth states issued and the callback requests in progress
  prov,           \* the requests in requireMerchant: position, user, merchant, answer
  vault,          \* the ciphertexts handed to decrypt and what it returned
  ppKeys,         \* PP: idempotency keys of the meter events it has accepted
  billed,         \* PP: usage log id -> times its amount was added to billed usage
  boot,           \* position of every starting replica (bootstrap, watchdog)
  proc,           \* the server process: up, closing its listener, or exited
  clients,        \* StripeClientFactory.tenantClients: merchant id -> account of the client
  processedEvents,\* processed_events table: event id -> processed_at
  pc,             \* position of every claimNextTask caller
  cur,            \* the task a caller obtained from claimNextTask
  sel,            \* the row an open claim transaction selected
  batch,          \* processReportUsage: pendingLogs
  reportedIds,    \* processReportUsage: reportedIds
  hpc,            \* position of every webhook delivery in flight
  hevt,           \* the event a webhook handler is processing
  deliveries,     \* number of webhook deliveries made so far (bounded)
  \* history variables (written, never read by the program's actions)
  inserted,       \* per merchant: month and sum of the dunning amounts inserted
  claimCount,     \* claims of a task since it was created, marked
                  \* completed/failed or reset by the janitor
  overAtStart,    \* quota already reached when the handler started
  quotaHit,       \* the handler took the quota branch of dunning_retry
  quotaLogs,      \* quota_exceeded logs written by the current handler
  mailed,         \* the current handler handed an email to the gateway
  lockTrue,       \* per event: attemptEventLock calls that returned true
  pruned,         \* per event: times its ledger row was pruned
  swept           \* the janitor has run since the clock last advanced

vars == <<now, ticks, merchants, tasks, nextTaskId, locked, logs, nextLogId,
          dailyMetrics, inserted, tx, res, erase, oauth, prov, vault, ppKeys, billed, boot,
          proc, clients,
          processedEvents, pc, cur, sel, batch, reportedIds, hpc, hevt,
          deliveries, claimCount, overAtStart,
          quotaHit, quotaLogs, mailed, lockTrue, pruned, swept>>

storeVars == <<merchants, tasks, nextTaskId, locked, logs, nextLogId, dailyMetrics>>
webVars == <<res, erase, oauth, prov, vault>>
procVars == <<proc, clients>>
sideVars == <<tx, boot, webVars, procVars>>
ppVars == <<ppKeys, billed>>
workerVars == <<pc, cur, sel, batch, reportedIds>>
hookVars == <<processedEvents, hpc, hevt, deliveries>>
histVars == <<inserted, claimCount, overAtStart, quotaHit,
              quotaLogs, mailed, lockTrue, pruned, swept>>


(* ------------------------------------------------------------------ *)
(* Plans and quota                                                      *)
(* ------------------------------------------------------------------ *)
NullPlan == "null"

\* PLANS[planId].limit, undefined (0 here) for an unknown key
PlanLimitOf(planId) ==
  CASE planId = "price_free" -> 20
    [] planId = "price_growth" -> 1000
    [] planId = "price_pro" -> 10000
    [] planId = "default" -> 20
    [] OTHER -> 0

PlanKnown(planId) == planId \in {"price_free", "price_growth", "price_pro", "default"}

\* getPlanLimit: planId ? PLANS[planId] : PLANS.default; plan?.limit ?? default
getPlanLimit(planId) ==
  IF planId # NullPlan /\ PlanKnown(planId) THEN PlanLimitOf(planId)
  ELSE PlanLimitOf("default")

\* PLANS[key].queueLimit of the plan, default plan for an unknown key
getQueueLimit(planId) ==
  CASE planId = "price_growth" -> 100
    [] planId = "price_pro" -> 1000
    [] OTHER -> 5

(* ------------------------------------------------------------------ *)
(* Store: usage logs                                                    *)
(* ------------------------------------------------------------------ *)
MONTH == 30 * DAY

\* date_trunc('month', CURRENT_DATE), as the number of the month
MonthStart(t) == t \div MONTH

RECURSIVE SumAmount(_, _)
SumAmount(tbl, ids) ==
  IF ids = {} THEN 0
  ELSE LET i == CHOOSE x \in ids : TRUE
       IN tbl[i].amount + SumAmount(tbl, ids \ {i})

DunningLogIds(tbl, m, t) ==
  {i \in DOMAIN tbl : /\ tbl[i].merchantId = m
                      /\ tbl[i].metricType = "dunning_email_sent"
                      /\ tbl[i].month >= MonthStart(t)}

\* the sum of the dunning amounts of m, of every month
getAllTimeDunningCount(m) ==
  SumAmount(logs, {i \in DOMAIN logs : /\ logs[i].merchantId = m
                                       /\ logs[i].metricType = "dunning_email_sent"})

\* storage.getMonthlyDunningCount
getMonthlyDunningCount(m) == SumAmount(logs, DunningLogIds(logs, m, now))

\* CURRENT_DATE, as the number of the day
Today(t) == t \div DAY

\* log.amount || 1: an absent amount (0 here) and the amount 0 count as 1
AmountOrOne(amount) == IF amount = 0 THEN 1 ELSE amount

\* the row createUsageLog inserts; created_at defaults to NOW(), the time t
\* at which the transaction began
NewLogAt(t, m, metric, amount, src) ==
  [merchantId |-> m, metricType |-> metric, amount |-> amount,
   month |-> MonthStart(t), day |-> Today(t), reportedAt |-> Null, src |-> src]

NewLog(m, metric, amount, src) == NewLogAt(now, m, metric, amount, src)

\* storage.createUsageLog, the usage_logs table after the insert (merchant_id
\* is a foreign key: the caller checks MerchantExists, the insert raises
\* otherwise)
createUsageLog(m, metric, amount, src) ==
  logs @@ (nextLogId :> NewLog(m, metric, AmountOrOne(amount), src))

\* storage.createUsageLog: emailsSent
EmailsSentOf(metric, amount) ==
  IF metric = "dunning_email_sent" THEN AmountOrOne(amount) ELSE 0

\* INSERT INTO daily_metrics ... ON CONFLICT (merchant_id, metric_date)
\* DO UPDATE SET counter = daily_metrics.counter + EXCLUDED.counter
upsertDailyMetrics(tbl, m, date, recoveredCents, emailsSent) ==
  [k \in DOMAIN tbl \cup {<<m, date>>} |->
     IF k = <<m, date>>
     THEN IF k \in DOMAIN tbl
          THEN [recoveredCents |-> tbl[k].recoveredCents + recoveredCents,
                emailsSent |-> tbl[k].emailsSent + emailsSent]
          ELSE [recoveredCents |-> recoveredCents, emailsSent |-> emailsSent]
     ELSE tbl[k]]

\* history: the dunning amounts inserted for m in the month of the clock
InsertedNow(m) ==
  IF inserted[m].month = MonthStart(now) THEN inserted[m].total ELSE 0

\* history: a row created at time t joins the sum of its month
NoteInserted(t, m, metric, amount) ==
  IF metric # "dunning_email_sent" \/ MonthStart(t) < inserted[m].month
  THEN inserted
  ELSE [inserted EXCEPT ![m] =
          [month |-> MonthStart(t),
           total |-> (IF inserted[m].month = MonthStart(t) THEN inserted[m].total ELSE 0)
                     + AmountOrOne(amount)]]

\* storage.createUsageLog as one committed transaction: the usage_logs row
\* and the daily_metrics upsert
WriteLog(m, metric, amount, src) ==
  /\ logs' = createUsageLog(m, metric, amount, src)
  /\ nextLogId' = nextLogId + 1
  /\ dailyMetrics' = upsertDailyMetrics(dailyMetrics, m, Today(now), 0,
                                        EmailsSentOf(metric, amount))
  /\ inserted' = NoteInserted(now, m, metric, amount)

MerchantExists(m) == m \in DOMAIN merchants


(* ------------------------------------------------------------------ *)
(* Store: tasks                                                         *)
(* ------------------------------------------------------------------ *)
NewTask(m, type, runAt, evt) ==
  [merchantId |-> m, taskType |-> type, status |-> "pending",
   runAt |-> runAt, createdAt |-> now, eventId |-> evt]

\* storage.createTask: the table after the insert
createTask(m, type, runAt, evt) ==
  tasks @@ (nextTaskId :> NewTask(m, type, runAt, evt))

\* storage.updateTaskStatus: unconditional, a no-op on a missing row
updateTaskStatus(tbl, id, status) ==
  [i \in DOMAIN tbl |-> IF i = id THEN [tbl[i] EXCEPT !.status = status] ELSE tbl[i]]

\* the ready rows of a SELECT ... FOR UPDATE that waits for locked rows
ReadyRowsWithLocked ==
  {i \in DOMAIN tasks : tasks[i].status = "pending" /\ tasks[i].runAt <= now}

\* claimNextTask, the rows its SELECT ... FOR UPDATE SKIP LOCKED can see
ReadyRows ==
  {i \in DOMAIN tasks : /\ tasks[i].status = "pending"
                        /\ tasks[i].runAt <= now
                        /\ i \notin locked}

\* ORDER BY run_at ASC LIMIT 1 (ties: any of the earliest)
Earliest(rows) == {i \in rows : \A j \in rows : tasks[i].runAt <= tasks[j].runAt}

\* storage.hasReportUsageTask
hasReportUsageTask ==
  \E i \in DOMAIN tasks : /\ tasks[i].taskType = "report_usage"
                          /\ tasks[i].status \in {"pending", "running"}

\* storage.hasWeeklyDigestTask
hasWeeklyDigestTask(m) ==
  \E i \in DOMAIN tasks : /\ tasks[i].merchantId = m
                          /\ tasks[i].taskType = "send_weekly_digest"
                          /\ tasks[i].status \in {"pending", "running"}

\* rows removed by ON DELETE CASCADE / the erasure deletes
WithoutMerchant(tbl, m) ==
  [i \in {j \in DOMAIN tbl : tbl[j].merchantId # m} |-> tbl[i]]

Without(tbl, ids) == [i \in DOMAIN tbl \ ids |-> tbl[i]]

(* ------------------------------------------------------------------ *)
(* Initial state                                                        *)
(* ------------------------------------------------------------------ *)
\* usage a merchant on the free plan may already have logged this month
InitialUsage == {19}

\* oauth_state NULL
NullState == 0

MerchantRow(email, connect, customer, plan) ==
  [email |-> email, stripeConnectId |-> connect,
   stripeCustomerId |-> customer, subscriptionPlanId |-> plan,
   clerkUserId |-> "null", oauthState |-> NullState, accessToken |-> "null"]

\* the callback requests, none in progress
OAuthRequests == {"c1", "c2"}
NoCallback ==
  [pc |-> "idle", merchantId |-> "system", snapshot |-> NullState, state |-> NullState,
   code |-> "none", outcome |-> "none"]

\* the requests passing requireMerchant, none in progress
ProvRequests == {"r1", "r2"}
NoProvision == [pc |-> "idle", userId |-> "null", merchantId |-> "null", status |-> 0]

\* a stored string: a token as it is (one part), or iv:authTag:body
NoIv == -1
Unencrypted(x) == [parts |-> 1, iv |-> NoIv, tag |-> << >>, body |-> x]

\* nothing encrypted yet; out: what decrypt returned
NoDecryption ==
  [plain |-> Unencrypted(<< >>), text |-> Unencrypted(<< >>), tampered |-> FALSE,
   decrypted |-> FALSE, out |-> Unencrypted(<< >>)]

\* no request answered yet
NoAnswer == [merchantId |-> "system", status |-> 0, id |-> NoTask, forged |-> FALSE]

\* no erasure requested yet; done: the merchants whose erasure was answered
\* with success; pp: the outcome of cancelling the subscriptions
NoErasure == [pc |-> "idle", merchantId |-> "system", status |-> 0, pp |-> "none", done |-> {}]

InitMerchants ==
  [m \in MerchantIds |->
     CASE m = "m1" -> [MerchantRow(TRUE, "acct_A", "cus_1", "price_free")
                         EXCEPT !.clerkUserId = "user_1"]
       [] m = "m2" -> [MerchantRow(FALSE, "acct_B", "null", NullPlan)
                         EXCEPT !.clerkUserId = "user_2"]
       [] OTHER -> MerchantRow(FALSE, "null", "null", NullPlan)]

\* the state after construction, the usage ledger apart
InitRest ==
  /\ now = 0
  /\ ticks = 0
  /\ merchants = InitMerchants
  /\ tasks = << >>
  /\ nextTaskId = 1
  /\ locked = {}
  /\ tx = NoTx
  /\ res = NoAnswer
  /\ erase = NoErasure
  /\ oauth = [issued |-> 0, req |-> [r \in OAuthRequests |-> NoCallback]]
  /\ prov = [r \in ProvRequests |-> NoProvision]
  /\ vault = NoDecryption
  /\ ppKeys = << >>
  /\ billed = << >>
  /\ boot = [r \in Replicas |-> "idle"]
  /\ proc = "up"
  /\ clients = << >>
  /\ processedEvents = << >>
  /\ pc = [c \in Callers |-> "idle"]
  /\ cur = [c \in Callers |-> NoCur]
  /\ sel = [c \in Callers |-> NoTask]
  /\ batch = [w \in Workers |-> {}]
  /\ reportedIds = [w \in Workers |-> {}]
  /\ hpc = [h \in Handlers |-> "idle"]
  /\ hevt = [h \in Handlers |-> [event |-> NoEvent, merchantId |-> "system",
                                   isFirstProcessing |-> FALSE, action |-> "none"]]
  /\ deliveries = [e \in EventIds |-> 0]
  /\ claimCount = << >>
  /\ overAtStart = [w \in Workers |-> FALSE]
  /\ quotaHit = [w \in Workers |-> FALSE]
  /\ quotaLogs = [w \in Workers |-> 0]
  /\ mailed = [w \in Workers |-> FALSE]
  /\ lockTrue = [e \in EventIds |-> 0]
  /\ pruned = [e \in EventIds |-> 0]
  /\ swept = FALSE

InitWith(usage) ==
  /\ InitRest
  /\ \E u \in usage :
       IF u = 0
       THEN /\ logs = << >>
            /\ nextLogId = 1
            /\ dailyMetrics = << >>
            /\ inserted = [m \in MerchantIds |-> [month |-> 0, total |-> 0]]
       ELSE /\ logs = (1 :> [merchantId |-> "m1", metricType |-> "dunning_email_sent",
                               amount |-> u, month |-> 0, day |-> 0,
                               reportedAt |-> Null, src |-> NoEvent])
            /\ nextLogId = 2
            /\ dailyMetrics = (<<"m1", 0>> :> [recoveredCents |-> 0, emailsSent |-> u])
            /\ inserted = [m \in MerchantIds |->
                             [month |-> 0, total |-> IF m = "m1" THEN u ELSE 0]]

Init == InitWith(InitialUsage)


(* ------------------------------------------------------------------ *)
(* claimNextTask: BEGIN; SELECT ... FOR UPDATE SKIP LOCKED; UPDATE;     *)
(* COMMIT.  The row lock is held from the SELECT to the COMMIT.         *)
(* ------------------------------------------------------------------ *)
FirstStep(type) ==
  CASE type = "dunning_retry" -> "dr_merchant"
    [] type = "notify_action_required" -> "na_invoice"
    [] type = "report_usage" -> "ru_fetch"
    [] type = "send_weekly_digest" -> "wd_merchant"
    [] OTHER -> "ok"

\* monthly count >= plan limit for a merchant row that exists
OverQuota(m) ==
  /\ MerchantExists(m)
  /\ getMonthlyDunningCount(m) >= getPlanLimit(merchants[m].subscriptionPlanId)

Bump(f, k) == IF k \in DOMAIN f THEN [f EXCEPT ![k] = @ + 1] ELSE f @@ (k :> 1)
Put(f, k, v) == IF k \in DOMAIN f THEN [f EXCEPT ![k] = v] ELSE f @@ (k :> v)
ZeroAt(f, ids) == [k \in DOMAIN f |-> IF k \in ids THEN 0 ELSE f[k]]

ClaimSelect(c) ==
  /\ pc[c] = "idle"
  /\ LET rows == Earliest(ReadyRows) IN
       IF rows = {}
       THEN UNCHANGED <<pc, sel, locked>>
       ELSE \E t \in rows :
              /\ sel' = [sel EXCEPT ![c] = t]
              /\ locked' = locked \cup {t}
              /\ pc' = [pc EXCEPT ![c] = "claiming"]
  /\ UNCHANGED <<sideVars, ppVars, now, ticks, merchants, tasks, nextTaskId, logs, nextLogId, dailyMetrics, inserted,
                 cur, batch, reportedIds, hookVars, claimCount,
                 overAtStart, quotaHit, quotaLogs, mailed, lockTrue, pruned, swept>>

ClaimCommit(c) ==
  /\ pc[c] = "claiming"
  /\ LET t == sel[c] IN
       /\ tasks' = updateTaskStatus(tasks, t, "running")
       /\ locked' = locked \ {t}
       /\ sel' = [sel EXCEPT ![c] = NoTask]
       /\ claimCount' = Bump(claimCount, t)
       /\ IF c \in Workers
          THEN /\ cur' = [cur EXCEPT ![c] = [id |-> t, merchantId |-> tasks[t].merchantId,
                                             taskType |-> tasks[t].taskType, plan |-> "null",
                                             claimedAt |-> now]]
               /\ pc' = [pc EXCEPT ![c] = FirstStep(tasks[t].taskType)]
               /\ overAtStart' = [overAtStart EXCEPT ![c] = OverQuota(tasks[t].merchantId)]
               /\ quotaHit' = [quotaHit EXCEPT ![c] = FALSE]
               /\ quotaLogs' = [quotaLogs EXCEPT ![c] = 0]
               /\ mailed' = [mailed EXCEPT ![c] = FALSE]
          ELSE /\ pc' = [pc EXCEPT ![c] = "idle"]
               /\ UNCHANGED <<cur, overAtStart, quotaHit, quotaLogs, mailed>>
  /\ UNCHANGED <<sideVars, ppVars, now, ticks, merchants, nextTaskId, logs, nextLogId, dailyMetrics, inserted, batch,
                 reportedIds, hookVars, lockTrue, pruned, swept>>

(* ------------------------------------------------------------------ *)
(* processTask: dunning_retry                                           *)
(* ------------------------------------------------------------------ *)
GoTo(w, where) == pc' = [pc EXCEPT ![w] = where]

WorkerFrame ==
  UNCHANGED <<sideVars, ppVars, now, ticks, merchants, nextTaskId, locked, sel, hookVars,
              claimCount, overAtStart, lockTrue, pruned, swept>>

DR_GetMerchant(w) ==
  /\ pc[w] = "dr_merchant"
  /\ IF MerchantExists(cur[w].merchantId)
     THEN /\ GoTo(w, "dr_quota")
          /\ cur' = [cur EXCEPT ![w].plan = merchants[cur[w].merchantId].subscriptionPlanId]
     ELSE GoTo(w, "threw") /\ UNCHANGED cur
  /\ WorkerFrame
  /\ UNCHANGED <<tasks, logs, nextLogId, dailyMetrics, inserted, batch, reportedIds, quotaHit, quotaLogs, mailed>>

\* the quota guard: currentUsage >= limit
QuotaExceeded(currentUsage, limit) == currentUsage >= limit

DR_Quota(w) ==
  /\ pc[w] = "dr_quota"
  /\ IF QuotaExceeded(getMonthlyDunningCount(cur[w].merchantId), getPlanLimit(cur[w].plan))
     THEN GoTo(w, "dr_quota_fail") /\ quotaHit' = [quotaHit EXCEPT ![w] = TRUE]
     ELSE GoTo(w, "dr_invoice") /\ UNCHANGED quotaHit
  /\ WorkerFrame
  /\ UNCHANGED <<tasks, cur, logs, nextLogId, dailyMetrics, inserted, batch, reportedIds, quotaLogs, mailed>>

DR_QuotaFail(w) ==
  /\ pc[w] = "dr_quota_fail"
  /\ cur[w].id \notin locked
  /\ tasks' = updateTaskStatus(tasks, cur[w].id, "failed")
  /\ claimCount' = ZeroAt(claimCount, {cur[w].id})
  /\ GoTo(w, "dr_quota_log")
  /\ UNCHANGED <<sideVars, ppVars, now, ticks, merchants, nextTaskId, locked, sel, hookVars,
                 overAtStart, lockTrue, pruned, swept>>
  /\ UNCHANGED <<cur, logs, nextLogId, dailyMetrics, inserted, batch, reportedIds, quotaHit, quotaLogs, mailed>>

\* a handler that goes on without its usage log
HandlerLogSkipped(w, metric, next) ==
  GoTo(w, next) /\ UNCHANGED <<logs, nextLogId, dailyMetrics, inserted>>

\* a createUsageLog call of a handler: the insert, or the foreign-key error
HandlerLog(w, metric, next) ==
  IF MerchantExists(cur[w].merchantId)
  THEN /\ WriteLog(cur[w].merchantId, metric, 1, NoEvent)
       /\ GoTo(w, next)
  ELSE GoTo(w, "threw") /\ UNCHANGED <<logs, nextLogId, dailyMetrics, inserted>>

DR_QuotaLog(w) ==
  /\ pc[w] = "dr_quota_log"
  /\ HandlerLog(w, "quota_exceeded", "ok")
  /\ quotaLogs' = [quotaLogs EXCEPT ![w] = IF MerchantExists(cur[w].merchantId) THEN @ + 1 ELSE @]
  /\ WorkerFrame
  /\ UNCHANGED <<tasks, cur, batch, reportedIds, quotaHit, mailed>>

InvoiceOutcomes == {"error", "paid", "void", "open_email", "open_noemail", "other"}

\* factory.getClient(merchantId) succeeds
HasClient(m) == MerchantExists(m) /\ merchants[m].stripeConnectId # "null"

DR_Invoice(w) ==
  /\ pc[w] = "dr_invoice"
  /\ \E o \in InvoiceOutcomes :
       IF ~HasClient(cur[w].merchantId) \/ o = "error" THEN GoTo(w, "threw")
       ELSE IF o = "open_email" THEN GoTo(w, "dr_log")
       ELSE GoTo(w, "ok")
  /\ WorkerFrame
  /\ UNCHANGED <<tasks, cur, logs, nextLogId, dailyMetrics, inserted, batch, reportedIds, quotaHit, quotaLogs, mailed>>

DR_Log(w) ==
  /\ pc[w] = "dr_log"
  /\ HandlerLog(w, "dunning_email_sent", "dr_send")
  /\ WorkerFrame
  /\ UNCHANGED <<tasks, cur, batch, reportedIds, quotaHit, quotaLogs, mailed>>

DR_Send(w) ==
  /\ pc[w] = "dr_send"
  /\ mailed' = [mailed EXCEPT ![w] = TRUE]
  /\ \E sent \in BOOLEAN : GoTo(w, IF sent THEN "ok" ELSE "threw")
  /\ WorkerFrame
  /\ UNCHANGED <<tasks, cur, logs, nextLogId, dailyMetrics, inserted, batch, reportedIds, quotaHit, quotaLogs>>

(* ------------------------------------------------------------------ *)
(* processTask: notify_action_required                                  *)
(* ------------------------------------------------------------------ *)
NA_Invoice(w) ==
  /\ pc[w] = "na_invoice"
  /\ \E o \in {"error", "open_email", "open_noemail"} :
       IF ~HasClient(cur[w].merchantId) \/ o = "error" THEN GoTo(w, "threw")
       ELSE IF o = "open_email" THEN GoTo(w, "na_send")
       ELSE GoTo(w, "ok")
  /\ WorkerFrame
  /\ UNCHANGED <<tasks, cur, logs, nextLogId, dailyMetrics, inserted, batch, reportedIds, quotaHit, quotaLogs, mailed>>

NA_Send(w) ==
  /\ pc[w] = "na_send"
  /\ mailed' = [mailed EXCEPT ![w] = TRUE]
  /\ \E sent \in BOOLEAN : GoTo(w, IF sent THEN "na_log" ELSE "threw")
  /\ WorkerFrame
  /\ UNCHANGED <<tasks, cur, logs, nextLogId, dailyMetrics, inserted, batch, reportedIds, quotaHit, quotaLogs>>

NA_Log(w) ==
  /\ pc[w] = "na_log"
  /\ HandlerLog(w, "dunning_email_sent", "ok")
  /\ WorkerFrame
  /\ UNCHANGED <<tasks, cur, batch, reportedIds, quotaHit, quotaLogs, mailed>>


(* ------------------------------------------------------------------ *)
(* processReportUsage                                                   *)
(* ------------------------------------------------------------------ *)
PendingLogIds == {i \in DOMAIN logs : logs[i].reportedAt = Null}

\* storage.getPendingUsageLogs(limit): the `limit` oldest unreported logs
\* (created_at never decreases along the serial id)
getPendingUsageLogs(limit) ==
  {{i \in PendingLogIds : Cardinality({j \in PendingLogIds : j < i}) < limit}}

RU_Fetch(w) ==
  /\ pc[w] = "ru_fetch"
  /\ \E B \in getPendingUsageLogs(PENDING_LOGS_LIMIT) :
       batch' = [batch EXCEPT ![w] =
                   {[id |-> i, merchantId |-> logs[i].merchantId,
                     metricType |-> logs[i].metricType, answer |-> "none",
                     statusCode |-> 0] : i \in B}]
  /\ GoTo(w, "ru_process")
  /\ WorkerFrame
  /\ UNCHANGED <<tasks, cur, logs, nextLogId, dailyMetrics, inserted, reportedIds, quotaHit, quotaLogs, mailed>>

\* the merchant has both ids the reporter needs
Reportable(m) ==
  /\ MerchantExists(m)
  /\ merchants[m].stripeConnectId # "null"
  /\ merchants[m].stripeCustomerId # "null"

\* PP's answer to a meter event, as the reporter classifies it; lost_reply
\* is a transient error raised after PP took the event
MeterOutcomes == {"ok", "idempotency_key_in_use", "permanent", "transient", "lost_reply"}

\* what meterEvents.create can come back with: the HTTP status (0: no
\* reply), the type and the code of the error, and whether PP took the event
MeterAnswers ==
  {[statusCode |-> 200, type |-> "none", code |-> "none", taken |-> TRUE],
   [statusCode |-> 400, type |-> "StripeIdempotencyError", code |-> "idempotency_key_in_use",
    taken |-> FALSE],
   [statusCode |-> 400, type |-> "StripeInvalidRequestError", code |-> "parameter_invalid",
    taken |-> FALSE],
   [statusCode |-> 403, type |-> "StripePermissionError", code |-> "none", taken |-> FALSE],
   [statusCode |-> 503, type |-> "StripeAPIError", code |-> "none", taken |-> FALSE],
   [statusCode |-> 0, type |-> "StripeConnectionError", code |-> "none", taken |-> TRUE]}

\* stripeError.code.startsWith('resource_')
ResourceCodes == {"resource_missing", "resource_already_exists"}

\* isPermanent
isPermanent(e) ==
  \/ e.type = "StripeInvalidRequestError"
  \/ e.statusCode = 400
  \/ e.statusCode = 404
  \/ e.code \in ResourceCodes

\* the branch of the reporter an answer takes
Classify(e) ==
  IF e.type = "none" THEN "ok"
  ELSE IF e.code = "idempotency_key_in_use" THEN "idempotency_key_in_use"
  ELSE IF isPermanent(e) THEN "permanent"
  ELSE IF e.taken THEN "lost_reply"
  ELSE "transient"

\* a reporter that uploads without reading the monthly count again
UploadsWithoutGuard(b) ==
  /\ Reportable(b.merchantId)
  /\ b.metricType = "dunning_email_sent"

\* the reporter calls meterEvents.create for the log
Uploads(b) ==
  /\ Reportable(b.merchantId)
  /\ b.metricType = "dunning_email_sent"
  /\ ~OverQuota(b.merchantId)

\* a key that differs from one upload of a log to the next
idempotencyKeyPerUpload(id) == <<"usage_log_", id, now>>

\* `usage_log_${logEntry.id}`
idempotencyKey(id) == <<"usage_log_", id>>

\* PP takes the meter events of the logs ids: an event whose key PP has
\* seen adds nothing to billed usage
MeterEventsCreate(ids) ==
  LET fresh == {i \in ids : idempotencyKey(i) \notin DOMAIN ppKeys}
      keys == {idempotencyKey(i) : i \in ids}
  IN
    /\ ppKeys' = [k \in DOMAIN ppKeys \cup keys |->
                    (IF k \in DOMAIN ppKeys THEN ppKeys[k] ELSE 0)
                    + (IF k \in keys THEN 1 ELSE 0)]
    /\ billed' = [i \in DOMAIN billed \cup fresh |->
                    (IF i \in DOMAIN billed THEN billed[i] ELSE 0)
                    + (IF i \in fresh THEN 1 ELSE 0)]

\* the log goes into reportedIds
MarksReported(b, answer) ==
  /\ Reportable(b.merchantId)
  /\ \/ b.metricType # "dunning_email_sent"
     \/ OverQuota(b.merchantId)
     \/ answer \in {"ok", "idempotency_key_in_use", "permanent"}

\* the loops over the merchants and their logs, PP answering each
\* meterEvents.create with one of `available`
RU_Upload(w, available) ==
  \E errors \in [batch[w] -> available] :
    LET answers == [x \in batch[w] |-> Classify(errors[x])] IN
      /\ reportedIds' = [reportedIds EXCEPT ![w] =
                           {b.id : b \in {x \in batch[w] : MarksReported(x, answers[x])}}]
      /\ MeterEventsCreate({b.id : b \in {x \in batch[w] :
                               Uploads(x) /\ answers[x] \in {"ok", "lost_reply"}}})
      /\ batch' = [batch EXCEPT ![w] =
                     {[x EXCEPT !.answer = IF Uploads(x) THEN answers[x] ELSE "none",
                                !.statusCode = IF Uploads(x) THEN errors[x].statusCode
                                               ELSE 0] :
                        x \in batch[w]}]

RU_ProcessFrame ==
  /\ UNCHANGED <<sideVars, now, ticks, merchants, nextTaskId, locked, sel, hookVars,
                 claimCount, overAtStart, lockTrue, pruned, swept>>
  /\ UNCHANGED <<tasks, cur, logs, nextLogId, dailyMetrics, inserted, quotaHit, quotaLogs, mailed>>

RU_Process(w) ==
  /\ pc[w] = "ru_process"
  /\ \/ /\ GoTo(w, "ru_finally_err")
        /\ UNCHANGED <<reportedIds, ppVars, batch>>
     \/ /\ RU_Upload(w, MeterAnswers)
        /\ GoTo(w, "ru_mark")
  /\ RU_ProcessFrame

\* PP accepts every meter event and nothing else raises
Accepted == {a \in MeterAnswers : a.type = "none"}

RU_ProcessAccepted(w) ==
  /\ pc[w] = "ru_process"
  /\ RU_Upload(w, Accepted)
  /\ GoTo(w, "ru_mark")
  /\ RU_ProcessFrame

\* storage.markUsageAsReported
markUsageAsReported(ids) ==
  [i \in DOMAIN logs |-> IF i \in ids THEN [logs[i] EXCEPT !.reportedAt = now] ELSE logs[i]]

RU_Mark(w) ==
  /\ pc[w] = "ru_mark"
  /\ logs' = markUsageAsReported(reportedIds[w])
  /\ batch' = [batch EXCEPT ![w] = {}]
  /\ reportedIds' = [reportedIds EXCEPT ![w] = {}]
  /\ GoTo(w, "ru_finally_ok")
  /\ WorkerFrame
  /\ UNCHANGED <<tasks, cur, nextLogId, dailyMetrics, inserted, quotaHit, quotaLogs, mailed>>

\* a finally block that enqueues the successor; the insert raises when the
\* merchant row is missing (foreign key), which replaces the body's outcome
EnqueueSuccessor(w, okpc, m, type, delay) ==
  IF MerchantExists(m)
  THEN /\ tasks' = createTask(m, type, now + delay, NoEvent)
       /\ nextTaskId' = nextTaskId + 1
       /\ claimCount' = Put(claimCount, nextTaskId, 0)
       /\ GoTo(w, IF pc[w] = okpc THEN "ok" ELSE "threw")
  ELSE /\ GoTo(w, "threw")
       /\ UNCHANGED <<tasks, nextTaskId, claimCount>>

FinallyFrame ==
  UNCHANGED <<sideVars, ppVars, now, ticks, merchants, locked, sel, hookVars,
              overAtStart, lockTrue, pruned, swept, cur, logs, nextLogId, dailyMetrics, inserted, quotaHit,
              quotaLogs, mailed>>

RU_Finally(w) ==
  /\ pc[w] \in {"ru_finally_ok", "ru_finally_err"}
  /\ EnqueueSuccessor(w, "ru_finally_ok", "system", "report_usage", REPORT_USAGE_INTERVAL)
  /\ batch' = [batch EXCEPT ![w] = {}]
  /\ reportedIds' = [reportedIds EXCEPT ![w] = {}]
  /\ FinallyFrame

(* ------------------------------------------------------------------ *)
(* processWeeklyDigest                                                  *)
(* ------------------------------------------------------------------ *)
WD_Merchant(w) ==
  /\ pc[w] = "wd_merchant"
  /\ IF MerchantExists(cur[w].merchantId) /\ merchants[cur[w].merchantId].email
     THEN GoTo(w, "wd_send")
     ELSE GoTo(w, "wd_finally_ok")
  /\ WorkerFrame
  /\ UNCHANGED <<tasks, cur, logs, nextLogId, dailyMetrics, inserted, batch, reportedIds, quotaHit, quotaLogs, mailed>>

WD_Send(w) ==
  /\ pc[w] = "wd_send"
  /\ mailed' = [mailed EXCEPT ![w] = TRUE]
  /\ \E sent \in BOOLEAN : GoTo(w, IF sent THEN "wd_finally_ok" ELSE "wd_finally_err")
  /\ WorkerFrame
  /\ UNCHANGED <<tasks, cur, logs, nextLogId, dailyMetrics, inserted, batch, reportedIds, quotaHit, quotaLogs>>

WD_Finally(w) ==
  /\ pc[w] \in {"wd_finally_ok", "wd_finally_err"}
  /\ EnqueueSuccessor(w, "wd_finally_ok", cur[w].merchantId, "send_weekly_digest",
                      WEEKLY_DIGEST_INTERVAL)
  /\ UNCHANGED <<batch, reportedIds>>
  /\ FinallyFrame

(* ------------------------------------------------------------------ *)
(* startWorker.run: the outcome update after processTask                *)
(* ------------------------------------------------------------------ *)
\* a run whose catch also writes completed
AlwaysCompleted(p) == "completed"

OutcomeStatus(p) == IF p = "ok" THEN "completed" ELSE "failed"

Finish(w) ==
  /\ pc[w] \in {"ok", "threw"}
  /\ cur[w].id \notin locked
  /\ tasks' = updateTaskStatus(tasks, cur[w].id, OutcomeStatus(pc[w]))
  /\ claimCount' = ZeroAt(claimCount, {cur[w].id})
  /\ GoTo(w, "idle")
  /\ cur' = [cur EXCEPT ![w] = NoCur]
  /\ overAtStart' = [overAtStart EXCEPT ![w] = FALSE]
  /\ quotaHit' = [quotaHit EXCEPT ![w] = FALSE]
  /\ quotaLogs' = [quotaLogs EXCEPT ![w] = 0]
  /\ mailed' = [mailed EXCEPT ![w] = FALSE]
  /\ UNCHANGED <<sideVars, ppVars, now, ticks, merchants, nextTaskId, locked, sel, hookVars,
                 lockTrue, pruned, swept, logs, nextLogId, dailyMetrics, inserted, batch, reportedIds>>

(* ------------------------------------------------------------------ *)
(* HTTP API                                                             *)
(* ------------------------------------------------------------------ *)
TaskTypes == {"dunning_retry", "notify_action_required", "report_usage", "send_weekly_digest"}
ALLOWED_TYPES == {"dunning_retry", "notify_action_required"}

Sessions == DOMAIN merchants \ {"system"}

\* checkUsageLimits lets the request through
checkUsageLimits(m) ==
  getMonthlyDunningCount(m) < getPlanLimit(merchants[m].subscriptionPlanId)

\* number of the merchant's pending tasks
getPendingTasksCount(m) ==
  Cardinality({i \in DOMAIN tasks : tasks[i].merchantId = m /\ tasks[i].status = "pending"})

ApiFrame ==
  UNCHANGED <<sideVars, ppVars, now, ticks, merchants, locked, workerVars, hookVars,
              overAtStart, quotaHit, quotaLogs, mailed, lockTrue, pruned, swept>>

\* POST /api/tasks
PostTask(m, type) ==
  /\ m \in Sessions
  /\ checkUsageLimits(m)
  /\ type \in ALLOWED_TYPES
  /\ getPendingTasksCount(m) < getQueueLimit(merchants[m].subscriptionPlanId)
  /\ tasks' = createTask(m, type, now, NoEvent)
  /\ nextTaskId' = nextTaskId + 1
  /\ claimCount' = Put(claimCount, nextTaskId, 0)
  /\ UNCHANGED <<logs, nextLogId, dailyMetrics, inserted>>
  /\ ApiFrame

\* the request bodies of POST /api/tasks: the task type and the fields a
\* client may add (Null, "null": the field is absent)
BodyExtras ==
  {[status |-> "pending", runAt |-> Null, merchantId |-> "null"],
   [status |-> "completed", runAt |-> DAY, merchantId |-> "m2"]}
PostBodies ==
  {[taskType |-> type, status |-> x.status, runAt |-> x.runAt, merchantId |-> x.merchantId] :
     type \in TaskTypes, x \in BodyExtras}

\* the storage call of the request that raises, if any
PostFailures == {"none", "getMonthlyDunningCount", "getPendingTasksCount", "createTask"}

\* the body carries a status, a run_at or a merchant id of its own
Forged(m, body) ==
  \/ body.status # "pending"
  \/ body.runAt # Null
  \/ body.merchantId \notin {"null", m}

\* runAt of the task of a request that carries a run_at of its own
ClientRunAt(body) == IF body.runAt = Null THEN now ELSE body.runAt

\* runAt: new Date()
ServerRunAt(body) == now

\* checkUsageLimits, then the handler: the status of the answer
PostStatus(m, body, failure) ==
  IF failure # "getMonthlyDunningCount" /\ ~checkUsageLimits(m) THEN 402
  ELSE IF body.taskType \notin ALLOWED_TYPES THEN 400
  ELSE IF failure = "getPendingTasksCount" THEN 500
  ELSE IF getPendingTasksCount(m) >= getQueueLimit(merchants[m].subscriptionPlanId) THEN 429
  ELSE IF failure = "createTask" THEN 500
  ELSE 201

\* POST /api/tasks with its answer; a storage call of it may raise
PostTasks(m, body, failure) ==
  /\ m \in Sessions
  /\ LET status == PostStatus(m, body, failure)
     IN /\ IF status = 201
           THEN /\ tasks' = createTask(m, body.taskType, ServerRunAt(body), NoEvent)
                /\ nextTaskId' = nextTaskId + 1
                /\ claimCount' = Put(claimCount, nextTaskId, 0)
           ELSE UNCHANGED <<tasks, nextTaskId, claimCount>>
        /\ res' = [merchantId |-> m, status |-> status,
                   id |-> IF status = 201 THEN nextTaskId ELSE NoTask,
                   forged |-> Forged(m, body)]
  /\ UNCHANGED <<logs, nextLogId, dailyMetrics, inserted>>
  /\ UNCHANGED <<tx, procVars, boot, erase, oauth, prov, vault, ppVars, now, ticks, merchants, locked, workerVars, hookVars,
                 overAtStart, quotaHit, quotaLogs, mailed, lockTrue, pruned, swept>>

\* POST /api/tasks/:id/retry
RetryTask(m, id) ==
  /\ m \in Sessions
  /\ checkUsageLimits(m)
  /\ id \in DOMAIN tasks
  /\ tasks[id].merchantId = m
  /\ id \notin locked
  /\ tasks' = updateTaskStatus(tasks, id, "pending")
  /\ WriteLog(m, "task_retry", 1, NoEvent)
  /\ UNCHANGED <<nextTaskId, claimCount>>
  /\ ApiFrame

\* DELETE /api/tasks/:id
DeleteTask(m, id) ==
  /\ m \in Sessions
  /\ id \in DOMAIN tasks
  /\ tasks[id].merchantId = m
  /\ id \notin locked
  /\ tasks' = Without(tasks, {id})
  /\ UNCHANGED <<nextTaskId, logs, nextLogId, dailyMetrics, inserted, claimCount>>
  /\ ApiFrame

\* POST /api/worker/complete/:id
RecoveredCents == {0, 500}

\* storage.updateDailyMetrics: the table after the upsert
updateDailyMetrics(tbl, m, recoveredCents) ==
  upsertDailyMetrics(tbl, m, Today(now), recoveredCents, 0)

WorkerComplete(id, success, recoveredCents) ==
  /\ id \in DOMAIN tasks
  /\ id \notin locked
  /\ tasks' = updateTaskStatus(tasks, id, IF success THEN "completed" ELSE "failed")
  /\ logs' = createUsageLog(tasks[id].merchantId,
                            IF success THEN "recovery_success" ELSE "recovery_failed",
                            1, NoEvent)
  /\ nextLogId' = nextLogId + 1
  /\ dailyMetrics' =
       LET logged == upsertDailyMetrics(dailyMetrics, tasks[id].merchantId, Today(now), 0, 0)
       IN IF success /\ recoveredCents # 0
          THEN updateDailyMetrics(logged, tasks[id].merchantId, recoveredCents)
          ELSE logged
  /\ UNCHANGED inserted
  /\ claimCount' = ZeroAt(claimCount, {id})
  /\ UNCHANGED nextTaskId
  /\ ApiFrame

\* DELETE /api/admin/merchants/:id; cancelled = the PP subscriptions were cancelled
EraseMerchant(m, cancelled) ==
  /\ MerchantExists(m)
  /\ merchants[m].stripeConnectId = "null" \/ cancelled
  /\ \A i \in locked : tasks[i].merchantId # m
  /\ ~(tx.pc \in {"upsert", "commit"} /\ tx.merchantId = m)
  /\ tasks' = WithoutMerchant(tasks, m)
  /\ logs' = WithoutMerchant(logs, m)
  /\ dailyMetrics' = [k \in {x \in DOMAIN dailyMetrics : x[1] # m} |-> dailyMetrics[k]]
  /\ inserted' = [inserted EXCEPT ![m] = [month |-> MonthStart(now), total |-> 0]]
  /\ merchants' = [x \in DOMAIN merchants \ {m} |-> merchants[x]]
  /\ UNCHANGED <<sideVars, ppVars, now, ticks, nextTaskId, nextLogId, locked, workerVars,
                 hookVars, claimCount, overAtStart, quotaHit, quotaLogs, mailed,
                 lockTrue, pruned, swept>>

OAuthFrame ==
  UNCHANGED <<tx, procVars, boot, res, erase, prov, vault, ppVars, now, ticks, tasks, nextTaskId, locked,
              workerVars, hookVars, claimCount, overAtStart, quotaHit, quotaLogs, mailed,
              lockTrue, pruned, swept>>

\* POST /api/stripe/connect/authorize: crypto.randomBytes(32) is a state
\* never issued before
Authorize(m) ==
  /\ m \in Sessions
  /\ oauth.issued < MaxOAuthStates
  /\ oauth' = [oauth EXCEPT !.issued = @ + 1]
  /\ merchants' = [merchants EXCEPT ![m].oauthState = oauth.issued + 1]
  /\ UNCHANGED <<logs, nextLogId, dailyMetrics, inserted>>
  /\ OAuthFrame

\* oauth.token: the account and the token PP gives for a code
OAuthCodes == {"code_1", "code_2"}
AccountOf(code) == IF code = "code_1" THEN "acct_C" ELSE "acct_D"
TokenOf(code) == IF code = "code_1" THEN "tok_1" ELSE "tok_2"

CallbackTo(r, where, outcome) ==
  oauth' = [oauth EXCEPT !.req[r].pc = where, !.req[r].outcome = outcome]

\* GET /api/stripe/connect/callback: requireMerchant loads req.merchant
CB_Load(r, m, state, code) ==
  /\ oauth.req[r].pc = "idle"
  /\ m \in Sessions
  /\ oauth' = [oauth EXCEPT !.req[r] = [pc |-> "check", merchantId |-> m,
                                        snapshot |-> merchants[m].oauthState,
                                        state |-> state, code |-> code, outcome |-> "none"]]
  /\ UNCHANGED <<merchants, logs, nextLogId, dailyMetrics, inserted>>
  /\ OAuthFrame

\* a check against the state the merchant's row holds now
StoredState(r) ==
  IF MerchantExists(oauth.req[r].merchantId)
  THEN merchants[oauth.req[r].merchantId].oauthState ELSE NullState

\* merchant.oauthState of req.merchant, the row as requireMerchant read it
SessionState(r) == oauth.req[r].snapshot

\* if (!merchant.oauthState || merchant.oauthState !== state) redirect
StateAccepted(expected, state) == expected # NullState /\ expected = state

CB_Check(r) ==
  /\ oauth.req[r].pc = "check"
  /\ IF StateAccepted(SessionState(r), oauth.req[r].state)
     THEN CallbackTo(r, "exchange", "none")
     ELSE CallbackTo(r, "idle", "rejected")
  /\ UNCHANGED <<merchants, logs, nextLogId, dailyMetrics, inserted>>
  /\ OAuthFrame

\* platformClient.oauth.token: PP accepts the code or raises
CB_Exchange(r, ok) ==
  /\ oauth.req[r].pc = "exchange"
  /\ IF ok THEN CallbackTo(r, "store", "none") ELSE CallbackTo(r, "idle", "error")
  /\ UNCHANGED <<merchants, logs, nextLogId, dailyMetrics, inserted>>
  /\ OAuthFrame

\* storage.updateMerchant: the credentials, oauthState: null
CB_Store(r) ==
  /\ oauth.req[r].pc = "store"
  /\ LET m == oauth.req[r].merchantId
     IN merchants' =
          IF MerchantExists(m)
          THEN [merchants EXCEPT ![m].stripeConnectId = AccountOf(oauth.req[r].code),
                                 ![m].accessToken = TokenOf(oauth.req[r].code),
                                 ![m].oauthState = NullState]
          ELSE merchants
  /\ CallbackTo(r, "log", "none")
  /\ UNCHANGED <<logs, nextLogId, dailyMetrics, inserted>>
  /\ OAuthFrame

\* storage.createUsageLog merchant_connected, res.redirect('/?connected=true')
CB_Log(r) ==
  /\ oauth.req[r].pc = "log"
  /\ IF MerchantExists(oauth.req[r].merchantId)
     THEN /\ WriteLog(oauth.req[r].merchantId, "merchant_connected", 1, NoEvent)
          /\ CallbackTo(r, "idle", "connected")
     ELSE /\ CallbackTo(r, "idle", "error")
          /\ UNCHANGED <<logs, nextLogId, dailyMetrics, inserted>>
  /\ UNCHANGED merchants
  /\ OAuthFrame

(* ------------------------------------------------------------------ *)
(* Token encryption (aes-256-gcm)                                       *)
(* ------------------------------------------------------------------ *)
\* tokens: strings of at most MaxTokenLen characters of a two-letter alphabet
RECURSIVE StringsOf(_)
StringsOf(n) ==
  IF n = 0 THEN {<< >>}
  ELSE StringsOf(n - 1) \cup {Append(x, c) : x \in {y \in StringsOf(n - 1) : Len(y) = n - 1}, c \in 0..1}

Tokens == StringsOf(MaxTokenLen)

\* crypto.randomBytes(IV_LENGTH)
Ivs == 0..MaxIv

\* cipher.update / cipher.final under the key: the counter-mode keystream
Cipher(iv, x) == [i \in 1..Len(x) |-> (x[i] + iv + i) % 2]

\* decipher.update: the same keystream taken off
Decipher(iv, body) == [i \in 1..Len(body) |-> (body[i] + iv + i) % 2]

\* cipher.getAuthTag(): 16 bytes, here AUTH_TAG_WORDS words of 4 bytes,
\* each determined by the key, the iv and the body
AUTH_TAG_WORDS == 4
AuthTag(iv, body) == [j \in 1..AUTH_TAG_WORDS |-> <<iv, body, j>>]

\* encrypt
encrypt(x) ==
  {IF x = << >> THEN Unencrypted(x)
   ELSE [parts |-> 3, iv |-> iv, tag |-> AuthTag(iv, Cipher(iv, x)), body |-> Cipher(iv, x)] :
     iv \in Ivs}

\* a decipher that takes only tags of the full length
AuthenticFullTag(t) == t.tag = AuthTag(t.iv, t.body)

\* decipher.setAuthTag and decipher.final: without authTagLength a tag
\* of 4, 8, 12 or 16 bytes is taken and compared over its own length
Authentic(t) ==
  /\ Len(t.tag) \in 1..AUTH_TAG_WORDS
  /\ t.tag = SubSeq(AuthTag(t.iv, t.body), 1, Len(t.tag))

\* decrypt: a string that is not iv:authTag:body comes back as it is, and so
\* does one that fails authentication (the catch returns text)
decrypt(t) ==
  IF t.body = << >> /\ t.parts = 1 THEN t
  ELSE IF t.parts # 3 THEN t
  ELSE IF Authentic(t) THEN Unencrypted(Decipher(t.iv, t.body))
  ELSE t

\* the ciphertexts that differ from t in the iv, in the tag or in the body
AlteredIv(t) == {[t EXCEPT !.iv = iv] : iv \in Ivs \ {t.iv}}
AlteredBody(t) == {[t EXCEPT !.body[i] = 1 - @] : i \in 1..Len(t.body)}
AlteredTag(t) ==
  {[t EXCEPT !.tag[j] = <<t.iv, t.body, 0>>] : j \in 1..Len(t.tag)}
  \cup {[t EXCEPT !.tag = SubSeq(@, 1, n)] : n \in 0..(Len(t.tag) - 1)}
Altered(t) == IF t.parts = 3 THEN AlteredIv(t) \cup AlteredBody(t) \cup AlteredTag(t) ELSE {}

VaultFrame ==
  UNCHANGED <<storeVars, tx, procVars, boot, res, erase, oauth, prov, ppVars, now, ticks, workerVars,
              hookVars, histVars>>

\* a token is encrypted and stored
V_Encrypt(x) ==
  /\ \E t \in encrypt(x) :
       vault' = [plain |-> Unencrypted(x), text |-> t, tampered |-> FALSE,
                 decrypted |-> FALSE, out |-> Unencrypted(<< >>)]
  /\ VaultFrame

\* the stored string is altered
V_Alter ==
  /\ ~vault.tampered
  /\ ~vault.decrypted
  /\ \E t \in Altered(vault.text) : vault' = [vault EXCEPT !.text = t, !.tampered = TRUE]
  /\ VaultFrame

\* the stored string is read back through decrypt
V_Decrypt ==
  /\ ~vault.decrypted
  /\ vault' = [vault EXCEPT !.decrypted = TRUE, !.out = decrypt(vault.text)]
  /\ VaultFrame

NextVault ==
  \/ \E x \in Tokens : V_Encrypt(x)
  \/ V_Alter
  \/ V_Decrypt

SpecVault == Init /\ [][NextVault]_vars

\* requireMerchant, statement by statement
ProvFrame ==
  UNCHANGED <<tx, procVars, boot, res, erase, oauth, vault, ppVars, now, ticks, tasks, nextTaskId, locked,
              logs, nextLogId, dailyMetrics, inserted, workerVars, hookVars, claimCount,
              overAtStart, quotaHit, quotaLogs, mailed, lockTrue, pruned, swept>>

\* storage.getMerchantByClerkUserId: the ids of the rows of the user
MerchantsByClerkUserId(u) == {m \in DOMAIN merchants : merchants[m].clerkUserId = u}

\* gen_random_uuid(): ids no row has had
NewMerchantIds == {"m3", "m4", "m5"}

RM_Select(r, u) ==
  /\ prov[r].pc \in {"idle", "next", "failed"}
  /\ prov' = [prov EXCEPT ![r] =
                IF MerchantsByClerkUserId(u) # {}
                THEN [pc |-> "next", userId |-> u,
                      merchantId |-> CHOOSE m \in MerchantsByClerkUserId(u) : TRUE, status |-> 0]
                ELSE [pc |-> "insert", userId |-> u, merchantId |-> "null", status |-> 0]]
  /\ UNCHANGED merchants
  /\ ProvFrame

\* storage.createMerchant: the unique index on clerk_user_id rejects a
\* second row of the user and the catch of requireMerchant answers 500
RM_Insert(r) ==
  /\ prov[r].pc = "insert"
  /\ IF MerchantsByClerkUserId(prov[r].userId) # {}
     THEN /\ prov' = [prov EXCEPT ![r].pc = "failed", ![r].status = 500]
          /\ UNCHANGED merchants
     ELSE /\ NewMerchantIds \ DOMAIN merchants # {}
          /\ LET id == CHOOSE m \in NewMerchantIds \ DOMAIN merchants : TRUE
             IN /\ merchants' = merchants @@
                     (id :> [MerchantRow(FALSE, "null", "null", "price_free")
                               EXCEPT !.clerkUserId = prov[r].userId])
                /\ prov' = [prov EXCEPT ![r].pc = "next", ![r].merchantId = id]
  /\ ProvFrame

\* DELETE /api/admin/merchants/:id, statement by statement
EraseFrame ==
  UNCHANGED <<tx, procVars, boot, res, oauth, prov, vault, ppVars, now, ticks, nextTaskId, nextLogId, locked, workerVars,
              hookVars, claimCount, overAtStart, quotaHit, quotaLogs, mailed,
              lockTrue, pruned, swept>>

EraseTo(where, status) == erase' = [erase EXCEPT !.pc = where, !.status = status]

\* storage.getMerchant: 404 without the row; the subscriptions are
\* cancelled only for a connected merchant
E_Get(m) ==
  /\ erase.pc = "idle"
  /\ erase' = [erase EXCEPT !.merchantId = m, !.pp = "none",
                            !.pc = IF ~MerchantExists(m) THEN "idle"
                                   ELSE IF merchants[m].stripeConnectId # "null" THEN "cancel"
                                   ELSE "tasks",
                            !.status = IF MerchantExists(m) THEN 0 ELSE 404]
  /\ UNCHANGED <<merchants, tasks, logs, dailyMetrics, inserted>>
  /\ EraseFrame

\* an erasure that goes on to the deletes whatever PP answered
AfterCancelAlways(cancelled) == "tasks"

\* catch (stripeError) { res.status(502) ...; return }
AfterCancel(cancelled) == IF cancelled THEN "tasks" ELSE "idle"

\* subscriptions.list and subscriptions.cancel
E_Cancel(cancelled) ==
  /\ erase.pc = "cancel"
  /\ erase' = [erase EXCEPT !.pp = IF cancelled THEN "cancelled" ELSE "failed",
                            !.pc = AfterCancel(cancelled),
                            !.status = IF AfterCancel(cancelled) = "idle" THEN 502 ELSE 0]
  /\ UNCHANGED <<merchants, tasks, logs, dailyMetrics, inserted>>
  /\ EraseFrame

\* storage.deleteAllTasksForMerchant; it waits for the rows a claim holds
E_Tasks ==
  /\ erase.pc = "tasks"
  /\ \A i \in locked : tasks[i].merchantId # erase.merchantId
  /\ tasks' = WithoutMerchant(tasks, erase.merchantId)
  /\ EraseTo("logs", 0)
  /\ UNCHANGED <<merchants, logs, dailyMetrics, inserted>>
  /\ EraseFrame

\* storage.deleteUsageLogs
E_Logs ==
  /\ erase.pc = "logs"
  /\ logs' = WithoutMerchant(logs, erase.merchantId)
  /\ inserted' = [inserted EXCEPT ![erase.merchantId] = [month |-> MonthStart(now), total |-> 0]]
  /\ EraseTo("metrics", 0)
  /\ UNCHANGED <<merchants, tasks, dailyMetrics>>
  /\ EraseFrame

\* storage.deleteDailyMetrics
E_Metrics ==
  /\ erase.pc = "metrics"
  /\ dailyMetrics' = [k \in {x \in DOMAIN dailyMetrics : x[1] # erase.merchantId} |-> dailyMetrics[k]]
  /\ EraseTo("merchant", 0)
  /\ UNCHANGED <<merchants, tasks, logs, inserted>>
  /\ EraseFrame

\* a schema whose foreign keys do not cascade
NoCascade(tbl, m) == tbl

\* references(() => merchants.id, { onDelete: "cascade" })
onDeleteCascade(tbl, m) == WithoutMerchant(tbl, m)

\* storage.deleteMerchant and res.json({ success: true }): the delete
\* cascades to the rows inserted since the deletes above, and waits for a
\* claim holding a row of the merchant and for an open insert for it
E_Merchant ==
  /\ erase.pc = "merchant"
  /\ \A i \in locked : tasks[i].merchantId # erase.merchantId
  /\ ~(tx.pc \in {"upsert", "commit"} /\ tx.merchantId = erase.merchantId)
  /\ merchants' = [x \in DOMAIN merchants \ {erase.merchantId} |-> merchants[x]]
  /\ tasks' = onDeleteCascade(tasks, erase.merchantId)
  /\ logs' = onDeleteCascade(logs, erase.merchantId)
  /\ dailyMetrics' = [k \in {x \in DOMAIN dailyMetrics : x[1] # erase.merchantId} |-> dailyMetrics[k]]
  /\ inserted' = [inserted EXCEPT ![erase.merchantId] = [month |-> MonthStart(now), total |-> 0]]
  /\ erase' = [erase EXCEPT !.pc = "idle", !.status = 200, !.done = @ \cup {erase.merchantId}]
  /\ EraseFrame

\* a delete raises: catch (error) { res.status(500) ... }
E_Raise ==
  /\ erase.pc \in {"tasks", "logs", "metrics", "merchant"}
  /\ EraseTo("idle", 500)
  /\ UNCHANGED <<merchants, tasks, logs, dailyMetrics, inserted>>
  /\ EraseFrame

EraseStep ==
  \/ \E cancelled \in BOOLEAN : E_Cancel(cancelled)
  \/ E_Tasks \/ E_Logs \/ E_Metrics \/ E_Merchant \/ E_Raise

(* ------------------------------------------------------------------ *)
(* Watchdog (ensureSystemTasks) and bootstrap                           *)
(* ------------------------------------------------------------------ *)
\* index.ts bootstrapReporter: the insert raises without the merchant row
\* "system" and the error is logged
bootstrapReporter ==
  /\ IF ~hasReportUsageTask /\ MerchantExists("system")
     THEN /\ tasks' = createTask("system", "report_usage", now, NoEvent)
          /\ nextTaskId' = nextTaskId + 1
          /\ claimCount' = Put(claimCount, nextTaskId, 0)
     ELSE UNCHANGED <<tasks, nextTaskId, claimCount>>
  /\ UNCHANGED <<logs, nextLogId, dailyMetrics, inserted>>
  /\ ApiFrame

\* the digest tasks the watchdog inserts, one per merchant of ms
RECURSIVE ResurrectDigests(_, _, _)
ResurrectDigests(tbl, id, ms) ==
  IF ms = {} THEN tbl
  ELSE LET m == CHOOSE x \in ms : TRUE
       IN ResurrectDigests(tbl @@ (id :> NewTask(m, "send_weekly_digest", now, NoEvent)),
                           id + 1, ms \ {m})

\* worker.ts ensureSystemTasks: a failed insert of the reporter task ends
\* the watchdog (its catch logs the error)
ensureSystemTasks ==
  /\ LET needReporter == ~hasReportUsageTask
         missing == {m \in DOMAIN merchants \ {"system"} : ~hasWeeklyDigestTask(m)}
         firstId == IF needReporter THEN nextTaskId + 1 ELSE nextTaskId
         lastId == firstId + Cardinality(missing)
     IN IF needReporter /\ ~MerchantExists("system")
        THEN UNCHANGED <<tasks, nextTaskId, claimCount>>
        ELSE /\ tasks' = ResurrectDigests(
                           IF needReporter
                           THEN createTask("system", "report_usage", now, NoEvent)
                           ELSE tasks,
                           firstId, missing)
             /\ nextTaskId' = lastId
             /\ claimCount' = [k \in DOMAIN claimCount \cup (nextTaskId .. lastId - 1) |->
                                IF k \in DOMAIN claimCount THEN claimCount[k] ELSE 0]
  /\ UNCHANGED <<logs, nextLogId, dailyMetrics, inserted>>
  /\ ApiFrame

\* the startup of a replica, one database call at a time: bootstrapReporter,
\* then the watchdog of startWorker
StartupFrame ==
  UNCHANGED <<tx, procVars, webVars, ppVars, now, ticks, merchants, locked, workerVars, hookVars,
              overAtStart, quotaHit, quotaLogs, mailed, lockTrue, pruned, swept,
              logs, nextLogId, dailyMetrics, inserted>>

BootTo(r, where) == boot' = [boot EXCEPT ![r] = where]

\* storage.createTask of the reporter task; the insert raises when the
\* system merchant is missing and the catch ends the function at `failed`
InsertReporter(r, next, failed) ==
  IF MerchantExists("system")
  THEN /\ tasks' = createTask("system", "report_usage", now, NoEvent)
       /\ nextTaskId' = nextTaskId + 1
       /\ claimCount' = Put(claimCount, nextTaskId, 0)
       /\ BootTo(r, next)
  ELSE /\ BootTo(r, failed)
       /\ UNCHANGED <<tasks, nextTaskId, claimCount>>

\* bootstrapReporter: const hasTask = await storage.hasReportUsageTask()
BS_Check(r) ==
  /\ boot[r] = "idle"
  /\ BootTo(r, IF hasReportUsageTask THEN "wd_check" ELSE "bs_insert")
  /\ UNCHANGED <<tasks, nextTaskId, claimCount>>
  /\ StartupFrame

\* bootstrapReporter: await storage.createTask(...)
BS_Insert(r) ==
  /\ boot[r] = "bs_insert"
  /\ InsertReporter(r, "wd_check", "wd_check")
  /\ StartupFrame

\* ensureSystemTasks: const hasReporter = await storage.hasReportUsageTask()
WD_Check(r) ==
  /\ boot[r] = "wd_check"
  /\ BootTo(r, IF hasReportUsageTask THEN "wd_digests" ELSE "wd_insert")
  /\ UNCHANGED <<tasks, nextTaskId, claimCount>>
  /\ StartupFrame

\* ensureSystemTasks: await storage.createTask(...) of the reporter
WD_Insert(r) ==
  /\ boot[r] = "wd_insert"
  /\ InsertReporter(r, "wd_digests", "up")
  /\ StartupFrame

\* ensureSystemTasks: the weekly digest of every merchant without one
WD_Digests(r) ==
  /\ boot[r] = "wd_digests"
  /\ LET missing == {m \in DOMAIN merchants \ {"system"} : ~hasWeeklyDigestTask(m)}
         lastId == nextTaskId + Cardinality(missing)
     IN /\ tasks' = ResurrectDigests(tasks, nextTaskId, missing)
        /\ nextTaskId' = lastId
        /\ claimCount' = [k \in DOMAIN claimCount \cup (nextTaskId .. lastId - 1) |->
                           IF k \in DOMAIN claimCount THEN claimCount[k] ELSE 0]
  /\ BootTo(r, "up")
  /\ StartupFrame

(* ------------------------------------------------------------------ *)
(* Janitor (runCleanup) and the clock                                   *)
(* ------------------------------------------------------------------ *)
\* a rescue that also takes the task created exactly the threshold ago
IsZombieAtLeast(row, t) ==
  row.status = "running" /\ row.createdAt <= t - ZOMBIE_THRESHOLD_MINUTES

\* WHERE status = 'running' AND created_at < NOW() - INTERVAL '10 minutes'
\* a rescue without the status filter
IsZombieAnyStatus(row, t) == row.createdAt < t - ZOMBIE_THRESHOLD_MINUTES

IsZombie(row, t) ==
  row.status = "running" /\ row.createdAt < t - ZOMBIE_THRESHOLD_MINUTES

\* WHERE processed_at < NOW() - INTERVAL '7 days'
IsExpired(processedAt, t) == processedAt < t - EVENT_RETENTION_MINUTES

RunCleanup ==
  /\ LET rescued == {i \in DOMAIN tasks : IsZombie(tasks[i], now)}
         expired == {e \in DOMAIN processedEvents : IsExpired(processedEvents[e], now)}
     IN /\ tasks' = [i \in DOMAIN tasks |->
                       IF i \in rescued
                       THEN [tasks[i] EXCEPT !.status = "pending", !.runAt = now]
                       ELSE tasks[i]]
        /\ claimCount' = ZeroAt(claimCount, rescued)
        /\ processedEvents' = Without(processedEvents, expired)
        /\ pruned' = [e \in EventIds |-> IF e \in expired THEN pruned[e] + 1 ELSE pruned[e]]
  /\ swept' = TRUE
  /\ UNCHANGED <<sideVars, ppVars, now, ticks, merchants, nextTaskId, locked, logs, nextLogId, dailyMetrics, inserted,
                 workerVars, hpc, hevt, deliveries,
                 overAtStart, quotaHit, quotaLogs, mailed, lockTrue>>

Tick(d) ==
  /\ now' = now + d
  /\ ticks' = ticks + 1
  /\ swept' = FALSE
  /\ UNCHANGED <<storeVars, sideVars, ppVars, workerVars, hookVars, inserted, claimCount,
                 overAtStart, quotaHit,
                 quotaLogs, mailed, lockTrue, pruned>>


(* ------------------------------------------------------------------ *)
(* Webhook ingress (handleStripeWebhook)                                *)
(* ------------------------------------------------------------------ *)
\* invoice.attempt_count of the renewal invoices that failed again
AttemptCountOf(e) ==
  CASE e = "evt_a0" -> 0
    [] e = "evt_a1" -> 1
    [] e = "evt_a2" -> 2
    [] e = "evt_a3" -> 3
    [] OTHER -> 4

Event(e) ==
  CASE e \in AttemptEventIds ->
         [type |-> "invoice.payment_failed", account |-> "acct_A",
          billingReason |-> "subscription_cycle", attemptCount |-> AttemptCountOf(e)]
    [] e = "evt_1" -> [type |-> "invoice.payment_failed", account |-> "acct_A",
                        billingReason |-> "subscription_cycle", attemptCount |-> 1]
    [] e = "evt_3" -> [type |-> "customer.subscription.updated", account |-> "acct_A",
                        customer |-> "cus_1", priceId |-> "price_pro", status |-> "active"]
    [] e = "evt_4" -> [type |-> "customer.subscription.created", account |-> "null",
                        customer |-> "cus_1", priceId |-> "price_pro", status |-> "active"]
    [] OTHER -> [type |-> "invoice.payment_failed", account |-> "acct_A",
                 billingReason |-> "subscription_create", attemptCount |-> 1]

\* calculateRetryDelay, by invoice.attempt_count || 1
calculateRetryDelay(attemptCount) ==
  LET n == IF attemptCount = 0 THEN 1 ELSE attemptCount IN
  CASE n = 1 -> 3 * DAY
    [] n = 2 -> 5 * DAY
    [] n = 3 -> 7 * DAY
    [] OTHER -> 7 * DAY

\* a lock that answers true whatever the ledger holds
attemptEventLockBlind(e) == TRUE

\* storage.attemptEventLock: INSERT ... ON CONFLICT DO NOTHING RETURNING

attemptEventLock(e) == e \notin DOMAIN processedEvents

\* getClientByConnectId: the merchants with this connect id
MerchantsByConnectId(acct) ==
  {m \in DOMAIN merchants : acct # "null" /\ merchants[m].stripeConnectId = acct}

TotalDeliveries ==
  deliveries["evt_1"] + deliveries["evt_2"] + deliveries["evt_3"] + deliveries["evt_4"]
  + deliveries["evt_a0"] + deliveries["evt_a1"] + deliveries["evt_a2"]
  + deliveries["evt_a3"] + deliveries["evt_a4"]

HookFrame ==
  UNCHANGED <<sideVars, ppVars, now, ticks, merchants, locked, workerVars,
              overAtStart, quotaHit, quotaLogs, mailed, pruned, swept>>

\* a delivery of event e reaches the handler (signature verified)
Deliver(h, e) ==
  /\ hpc[h] = "idle"
  /\ deliveries' = [deliveries EXCEPT ![e] = @ + 1]
  /\ hpc' = [hpc EXCEPT ![h] = "lock"]
  /\ hevt' = [hevt EXCEPT ![h] = [event |-> e, merchantId |-> "system",
                                   isFirstProcessing |-> FALSE, action |-> "none"]]
  /\ UNCHANGED <<processedEvents, tasks, nextTaskId, logs, nextLogId, dailyMetrics, inserted, claimCount, lockTrue>>
  /\ HookFrame

\* a handler that goes on to the switch whatever the lock answered
AfterLockAlways(isFirstProcessing) == "route"

\* if (!isFirstProcessing) return ...: where the handler goes after the lock
AfterLock(isFirstProcessing) == IF isFirstProcessing THEN "route" ELSE "idle"

\* the handler returns its WebhookResult
Answer(h, action) ==
  /\ hpc' = [hpc EXCEPT ![h] = "idle"]
  /\ hevt' = [hevt EXCEPT ![h].action = action]

HookLock(h) ==
  /\ hpc[h] = "lock"
  /\ LET isFirstProcessing == attemptEventLock(hevt[h].event) IN
       /\ IF isFirstProcessing
          THEN /\ processedEvents' = Put(processedEvents, hevt[h].event, now)
               /\ lockTrue' = [lockTrue EXCEPT ![hevt[h].event] = @ + 1]
          ELSE UNCHANGED <<processedEvents, lockTrue>>
       /\ hpc' = [hpc EXCEPT ![h] = AfterLock(isFirstProcessing)]
       /\ hevt' = [hevt EXCEPT ![h].isFirstProcessing = isFirstProcessing,
                               ![h].action = IF AfterLock(isFirstProcessing) = "idle"
                                             THEN "ignored" ELSE "none"]
  /\ UNCHANGED <<deliveries, tasks, nextTaskId, logs, nextLogId, dailyMetrics, inserted, claimCount>>
  /\ HookFrame

SubscriptionTypes == {"customer.subscription.updated", "customer.subscription.created"}

\* a guard that takes every subscription event for a platform event
NeverTenantSide(ev) == FALSE

\* if (event.account): the event came from a connected account
IsTenantSide(ev) == ev.account # "null"

\* storage.getMerchantByStripeCustomerId: the merchants with this platform
\* customer id
MerchantsByCustomerId(customer) ==
  {m \in DOMAIN merchants : customer # "null" /\ merchants[m].stripeCustomerId = customer}

\* handleSubscriptionUpdated
handleSubscriptionUpdated(h, ev) ==
  IF IsTenantSide(ev) \/ ev.priceId = "null"
  THEN Answer(h, "ignored") /\ UNCHANGED merchants
  ELSE LET ms == MerchantsByCustomerId(ev.customer)
           newPlanId == IF ev.status \in {"active", "trialing"} THEN ev.priceId
                        ELSE "price_free"
       IN IF ms = {}
          THEN Answer(h, "error") /\ UNCHANGED merchants
          ELSE \E m \in ms :
                 /\ merchants' = [merchants EXCEPT ![m].subscriptionPlanId = newPlanId]
                 /\ Answer(h, "processed")

\* handleInvoicePaymentFailed and the tenant lookup of enqueueDunningTask
handleInvoicePaymentFailed(h, ev) ==
  LET ms == MerchantsByConnectId(ev.account) IN
    IF ev.billingReason # "subscription_cycle" THEN Answer(h, "ignored")
    ELSE IF ms = {} THEN Answer(h, "error")
    ELSE /\ \E m \in ms : hevt' = [hevt EXCEPT ![h].merchantId = m]
         /\ hpc' = [hpc EXCEPT ![h] = "enqueue_task"]

\* switch (event.type)
HookRoute(h) ==
  /\ hpc[h] = "route"
  /\ LET ev == Event(hevt[h].event) IN
       IF ev.type \in SubscriptionTypes
       THEN handleSubscriptionUpdated(h, ev)
       ELSE handleInvoicePaymentFailed(h, ev) /\ UNCHANGED merchants
  /\ UNCHANGED <<processedEvents, deliveries, tasks, nextTaskId, logs, nextLogId, dailyMetrics, inserted,
                 claimCount, lockTrue>>
  /\ UNCHANGED <<sideVars, ppVars, now, ticks, locked, workerVars,
                 overAtStart, quotaHit, quotaLogs, mailed, pruned, swept>>

HookCreateTask(h) ==
  /\ hpc[h] = "enqueue_task"
  /\ IF MerchantExists(hevt[h].merchantId)
     THEN /\ tasks' = createTask(hevt[h].merchantId, "dunning_retry",
                                 now + calculateRetryDelay(Event(hevt[h].event).attemptCount),
                                 hevt[h].event)
          /\ nextTaskId' = nextTaskId + 1
          /\ claimCount' = Put(claimCount, nextTaskId, 0)
          /\ hpc' = [hpc EXCEPT ![h] = "enqueue_log"]
          /\ UNCHANGED hevt
     ELSE /\ Answer(h, "error")
          /\ UNCHANGED <<tasks, nextTaskId, claimCount>>
  /\ UNCHANGED <<processedEvents, deliveries, logs, nextLogId, dailyMetrics, inserted, lockTrue>>
  /\ HookFrame

HookLog(h) ==
  /\ hpc[h] = "enqueue_log"
  /\ IF MerchantExists(hevt[h].merchantId)
     THEN /\ WriteLog(hevt[h].merchantId, "task_scheduled", 1, hevt[h].event)
          /\ Answer(h, "enqueued")
     ELSE /\ UNCHANGED <<logs, nextLogId, dailyMetrics, inserted>>
          /\ Answer(h, "error")
  /\ UNCHANGED <<processedEvents, deliveries, tasks, nextTaskId, claimCount, lockTrue>>
  /\ HookFrame

(* ------------------------------------------------------------------ *)
(* Specifications                                                       *)
(* ------------------------------------------------------------------ *)
\* the handlers of the task types a user can create
QueueSteps == {ZOMBIE_THRESHOLD_MINUTES}

QueueWorkerStep(w) ==
  \/ DR_GetMerchant(w) \/ DR_Quota(w) \/ DR_QuotaFail(w) \/ DR_QuotaLog(w)
  \/ DR_Invoice(w) \/ DR_Log(w) \/ DR_Send(w)
  \/ NA_Invoice(w) \/ NA_Send(w) \/ NA_Log(w)
  \/ Finish(w)

\* the tables and the clock stay within the bounds
Within(maxTasks, maxLogs, maxTicks) ==
  /\ nextTaskId' <= maxTasks + 1
  /\ nextLogId' <= maxLogs + 1
  /\ ticks' <= maxTicks

\* the task queue: user-created tasks, the worker loop and an external
\* worker on POST /api/worker/claim, the task endpoints, the janitor
QueueWorkers == {"w1"}
QueueCallers == {"w1", "api"}

NextQueue ==
  \/ \E c \in QueueCallers : ClaimSelect(c) \/ ClaimCommit(c)
  \/ \E w \in QueueWorkers : QueueWorkerStep(w)
  \/ \E type \in TaskTypes : PostTask("m1", type)
  \/ \E id \in 1..MaxId : RetryTask("m1", id)
  \/ \E id \in 1..MaxId, success \in BOOLEAN, recoveredCents \in RecoveredCents :
       WorkerComplete(id, success, recoveredCents)
  \/ RunCleanup
  \/ \E d \in QueueSteps : Tick(d)

Next == NextQueue /\ Within(MaxTasks, MaxLogs, MaxTicks)

Spec == Init /\ [][Next]_vars

\* POST /api/tasks with its answers, beside the worker loop
PostSessions == {"m1"}

PostActions ==
  \/ \E m \in PostSessions, body \in PostBodies, failure \in PostFailures :
       PostTasks(m, body, failure)
  \/ \E d \in QueueSteps : Tick(d)

NextPost == PostActions /\ Within(MaxPostTasks, MaxPostLogs, MaxPostTicks)

\* the merchant starts one mail below its monthly limit or at it
PostUsage == {19, 20}

SpecPost == InitWith(PostUsage) /\ [][NextPost]_vars

\* the erasure of a merchant beside the worker loop and the webhook ingress
ErasedMerchants == {"m1"}
EraseHandlers == {"h1"}
EraseEventIds == {"evt_1"}
EraseTaskTypes == {"notify_action_required"}

EraseActions ==
  \/ \E m \in ErasedMerchants : E_Get(m)
  \/ EraseStep
  \/ \E w \in QueueWorkers : ClaimSelect(w) \/ ClaimCommit(w)
  \/ \E w \in QueueWorkers : NA_Invoice(w) \/ NA_Send(w) \/ NA_Log(w) \/ Finish(w)
  \/ \E type \in EraseTaskTypes : PostTask("m1", type)
  \/ \E h \in EraseHandlers, e \in EraseEventIds : Deliver(h, e)
  \/ \E h \in EraseHandlers : HookLock(h) \/ HookRoute(h) \/ HookCreateTask(h) \/ HookLog(h)

NextErase ==
  /\ EraseActions
  /\ nextTaskId' <= MaxEraseTasks + 1
  /\ nextLogId' <= MaxEraseLogs + 1
  /\ TotalDeliveries' <= MaxEraseDeliveries

SpecErase == Init /\ [][NextErase]_vars

\* the OAuth connection of one session: authorize and two callback requests
OAuthSessions == {"m1"}

OAuthActions ==
  \/ \E m \in OAuthSessions : Authorize(m)
  \/ \E r \in OAuthRequests, m \in OAuthSessions, state \in 1..MaxOAuthStates, code \in OAuthCodes :
       CB_Load(r, m, state, code)
  \/ \E r \in OAuthRequests : CB_Check(r) \/ CB_Store(r) \/ CB_Log(r)
  \/ \E r \in OAuthRequests, ok \in BOOLEAN : CB_Exchange(r, ok)

NextOAuth == OAuthActions /\ nextLogId' <= MaxOAuthLogs + 1

SpecOAuth == Init /\ [][NextOAuth]_vars

\* requests of provisioned and of new users passing requireMerchant
ProvUsers == {"user_1", "user_3", "user_4"}

NextProvision ==
  \/ \E r \in ProvRequests, u \in ProvUsers : RM_Select(r, u)
  \/ \E r \in ProvRequests : RM_Insert(r)

SpecProvision == Init /\ [][NextProvision]_vars

\* the janitor with the worker loop
JanitorActions ==
  \/ \E w \in QueueWorkers : ClaimSelect(w) \/ ClaimCommit(w)
  \/ \E w \in QueueWorkers : QueueWorkerStep(w)
  \/ \E type \in TaskTypes : PostTask("m1", type)
  \/ RunCleanup
  \/ \E d \in QueueSteps : Tick(d)

NextJanitor == JanitorActions /\ Within(MaxJanitorTasks, MaxJanitorLogs, MaxJanitorTicks)

SpecJanitor == Init /\ [][NextJanitor]_vars

\* the system tasks: the reporter and the weekly digest with the watchdog
\* and the erasure of a merchant
SystemWorkerStep(w) ==
  \/ RU_Fetch(w) \/ RU_Process(w) \/ RU_Mark(w) \/ RU_Finally(w)
  \/ WD_Merchant(w) \/ WD_Send(w) \/ WD_Finally(w)
  \/ Finish(w)

WorkerActions ==
  \/ \E w \in QueueWorkers : ClaimSelect(w) \/ ClaimCommit(w)
  \/ \E w \in QueueWorkers : SystemWorkerStep(w)
  \/ \E m \in MerchantIds, cancelled \in BOOLEAN : EraseMerchant(m, cancelled)
  \/ \E m \in MerchantIds, id \in 1..MaxId : DeleteTask(m, id)
  \/ bootstrapReporter
  \/ ensureSystemTasks
  \/ RunCleanup
  \/ \E d \in QueueSteps : Tick(d)

NextWorker == WorkerActions /\ Within(MaxWorkerTasks, MaxWorkerLogs, MaxWorkerTicks)

SpecWorker == Init /\ [][NextWorker]_vars

\* the webhook ingress with the janitor
HookSteps == {EVENT_RETENTION_MINUTES}

HookActions ==
  \/ \E h \in Handlers, e \in InvoiceEventIds : Deliver(h, e)
  \/ \E h \in Handlers : HookLock(h) \/ HookRoute(h) \/ HookCreateTask(h) \/ HookLog(h)
  \/ RunCleanup
  \/ \E d \in HookSteps : Tick(d)

NextWebhook ==
  /\ HookActions
  /\ Within(MaxHookTasks, MaxHookLogs, MaxHookTicks)
  /\ TotalDeliveries' <= MaxDeliveries

SpecWebhook == Init /\ [][NextWebhook]_vars

\* the webhook ingress with the subscription events
IngressEventIds == InvoiceEventIds \cup SubscriptionEventIds

IngressActions ==
  \/ \E h \in Handlers, e \in IngressEventIds : Deliver(h, e)
  \/ \E h \in Handlers : HookLock(h) \/ HookRoute(h) \/ HookCreateTask(h) \/ HookLog(h)
  \/ RunCleanup
  \/ \E d \in HookSteps : Tick(d)

NextIngress ==
  /\ IngressActions
  /\ Within(MaxIngressTasks, MaxIngressLogs, MaxIngressTicks)
  /\ TotalDeliveries' <= MaxIngressDeliveries

SpecIngress == Init /\ [][NextIngress]_vars

\* the statements of storage.createUsageLog, one caller
LedgerMerchants == {"m1", "m2"}
LedgerMetrics == {"dunning_email_sent", "task_retry"}
LedgerAmounts == 0..MaxAmount
LedgerSteps == {MONTH}

LedgerFrame ==
  UNCHANGED <<merchants, tasks, nextTaskId, locked, boot, webVars, procVars, ppVars, now, ticks, workerVars,
              hookVars, claimCount, overAtStart, quotaHit, quotaLogs, mailed, lockTrue,
              pruned, swept>>

\* ROLLBACK and throw
Raised == [NoTx EXCEPT !.raised = TRUE, !.id = tx.id]

\* a table after an INSERT outside a transaction
AutocommitInsert(tbl, id, row) == tbl @@ (id :> row)

\* a table as the other sessions read it after an INSERT between BEGIN and
\* COMMIT
UncommittedInsert(tbl, id, row) == tbl

\* the usage_logs row of the open transaction
TxRow == NewLogAt(tx.at, tx.merchantId, tx.metricType, AmountOrOne(tx.amount), NoEvent)

\* BEGIN
UL_Begin(m, metric, amount) ==
  /\ tx.pc = "idle"
  /\ tx' = [pc |-> "insert", merchantId |-> m, metricType |-> metric, amount |-> amount,
            id |-> 0, at |-> now, raised |-> FALSE]
  /\ UNCHANGED <<logs, nextLogId, dailyMetrics, inserted>>
  /\ LedgerFrame

\* INSERT INTO usage_logs; ok = the statement succeeds (it raises when the
\* merchant row is gone)
UL_Insert(ok) ==
  /\ tx.pc = "insert"
  /\ nextLogId' = nextLogId + 1
  /\ IF ok /\ MerchantExists(tx.merchantId)
     THEN /\ tx' = [tx EXCEPT !.pc = "upsert", !.id = nextLogId]
          /\ logs' = UncommittedInsert(logs, nextLogId, TxRow)
     ELSE /\ tx' = Raised
          /\ logs' = logs
  /\ UNCHANGED <<dailyMetrics, inserted>>
  /\ LedgerFrame

\* INSERT INTO daily_metrics ... ON CONFLICT DO UPDATE; ok = it succeeds
UL_Upsert(ok) ==
  /\ tx.pc = "upsert"
  /\ tx' = IF ok THEN [tx EXCEPT !.pc = "commit"] ELSE Raised
  /\ UNCHANGED <<logs, nextLogId, dailyMetrics, inserted>>
  /\ LedgerFrame

\* COMMIT; ok = it succeeds
UL_Commit(ok) ==
  /\ tx.pc = "commit"
  /\ IF ok
     THEN /\ tx' = NoTx
          /\ logs' = logs @@ (tx.id :> TxRow)
          /\ dailyMetrics' = upsertDailyMetrics(dailyMetrics, tx.merchantId, Today(tx.at), 0,
                                                EmailsSentOf(tx.metricType, tx.amount))
          /\ inserted' = NoteInserted(tx.at, tx.merchantId, tx.metricType, tx.amount)
     ELSE /\ tx' = Raised
          /\ UNCHANGED <<logs, dailyMetrics, inserted>>
  /\ UNCHANGED nextLogId
  /\ LedgerFrame

LedgerActions ==
  \/ \E m \in LedgerMerchants, metric \in LedgerMetrics, amount \in LedgerAmounts :
       UL_Begin(m, metric, amount)
  \/ \E ok \in BOOLEAN : UL_Insert(ok) \/ UL_Upsert(ok) \/ UL_Commit(ok)
  \/ \E m \in LedgerMerchants, cancelled \in BOOLEAN : EraseMerchant(m, cancelled)
  \/ \E d \in LedgerSteps : Tick(d)

NextLedger == LedgerActions /\ Within(0, MaxLedgerLogs, MaxLedgerTicks)

SpecLedger == Init /\ [][NextLedger]_vars

\* the reporter run by the worker loops of two processes, with the janitor
ReporterActions ==
  \/ \E w \in Workers : ClaimSelect(w) \/ ClaimCommit(w)
  \/ \E w \in Workers : RU_Fetch(w) \/ RU_Process(w) \/ RU_Mark(w) \/ RU_Finally(w) \/ Finish(w)
  \/ bootstrapReporter
  \/ RunCleanup
  \/ \E d \in QueueSteps : Tick(d)

NextReporter ==
  ReporterActions /\ Within(MaxReporterTasks, MaxReporterLogs, MaxReporterTicks)

SpecReporter == Init /\ [][NextReporter]_vars

\* the same processes over a shorter time
NextMeter == ReporterActions /\ Within(MaxMeterTasks, MaxMeterLogs, MaxMeterTicks)

SpecMeter == Init /\ [][NextMeter]_vars

\* the reporter of one worker beside the mails of the worker loop; the
\* merchant starts two mails or one mail below its monthly limit
UploadUsage == {18, 19}
UploadTaskTypes == {"notify_action_required"}

UploadActions ==
  \/ \E w \in QueueWorkers : ClaimSelect(w) \/ ClaimCommit(w)
  \/ \E w \in QueueWorkers : RU_Fetch(w) \/ RU_Process(w) \/ RU_Mark(w) \/ RU_Finally(w)
  \/ \E w \in QueueWorkers : NA_Invoice(w) \/ NA_Send(w) \/ NA_Log(w) \/ Finish(w)
  \/ \E type \in UploadTaskTypes : PostTask("m1", type)
  \/ bootstrapReporter
  \/ \E d \in QueueSteps : Tick(d)

NextUpload == UploadActions /\ Within(MaxUploadTasks, MaxUploadLogs, MaxUploadTicks)

SpecUpload == InitWith(UploadUsage) /\ [][NextUpload]_vars

\* the reporter of one worker for a merchant that starts one mail below
\* its monthly limit or at it
GuardUsage == {19, 20}

GuardActions ==
  \/ \E w \in QueueWorkers : ClaimSelect(w) \/ ClaimCommit(w)
  \/ \E w \in QueueWorkers : RU_Fetch(w) \/ RU_Process(w) \/ RU_Mark(w) \/ RU_Finally(w) \/ Finish(w)
  \/ bootstrapReporter
  \/ \E d \in QueueSteps : Tick(d)

NextGuard == GuardActions /\ Within(MaxGuardTasks, MaxGuardLogs, MaxGuardTicks)

SpecGuard == InitWith(GuardUsage) /\ [][NextGuard]_vars

\* several replicas starting, an external worker claiming and completing,
\* the janitor
StartupActions ==
  \/ \E r \in Replicas :
       BS_Check(r) \/ BS_Insert(r) \/ WD_Check(r) \/ WD_Insert(r) \/ WD_Digests(r)
  \/ \E c \in ApiCallers : ClaimSelect(c) \/ ClaimCommit(c)
  \/ \E id \in 1..MaxId, success \in BOOLEAN : WorkerComplete(id, success, 0)
  \/ RunCleanup
  \/ \E d \in QueueSteps : Tick(d)

NextStartup ==
  StartupActions /\ Within(MaxStartupTasks, MaxStartupLogs, MaxStartupTicks)

SpecStartup == Init /\ [][NextStartup]_vars

\* two external workers on POST /api/worker/claim, tasks posted by a
\* merchant, a webhook handler scheduling retries, the janitor
ClaimHandlers == {"h1"}
ClaimEventIds == {"evt_1"}
ClaimTaskTypes == {"dunning_retry"}
ClaimSteps == {2 * ZOMBIE_THRESHOLD_MINUTES}

ClaimActions ==
  \/ \E c \in ApiCallers : ClaimSelect(c) \/ ClaimCommit(c)
  \/ \E type \in ClaimTaskTypes : PostTask("m1", type)
  \/ \E h \in ClaimHandlers, e \in ClaimEventIds : Deliver(h, e)
  \/ \E h \in ClaimHandlers : HookLock(h) \/ HookRoute(h) \/ HookCreateTask(h) \/ HookLog(h)
  \/ RunCleanup
  \/ \E d \in ClaimSteps : Tick(d)

NextClaim ==
  /\ ClaimActions
  /\ Within(MaxClaimTasks, MaxClaimLogs, MaxClaimTicks)
  /\ TotalDeliveries' <= MaxClaimDeliveries

SpecClaim == Init /\ [][NextClaim]_vars

\* every writer of scheduled_tasks: an external worker claiming and
\* completing, the task routes of a merchant, a webhook handler scheduling
\* retries, the janitor
RunAtCallers == {"api"}

RunAtActions ==
  \/ \E c \in RunAtCallers : ClaimSelect(c) \/ ClaimCommit(c)
  \/ \E id \in 1..MaxId, success \in BOOLEAN : WorkerComplete(id, success, 0)
  \/ \E type \in ClaimTaskTypes : PostTask("m1", type)
  \/ \E id \in 1..MaxId : RetryTask("m1", id)
  \/ \E h \in ClaimHandlers, e \in ClaimEventIds : Deliver(h, e)
  \/ \E h \in ClaimHandlers : HookLock(h) \/ HookRoute(h) \/ HookCreateTask(h) \/ HookLog(h)
  \/ RunCleanup
  \/ \E d \in ClaimSteps : Tick(d)

NextRunAt ==
  /\ RunAtActions
  /\ Within(MaxRunAtTasks, MaxRunAtLogs, MaxRunAtTicks)
  /\ TotalDeliveries' <= MaxRunAtDeliveries

SpecRunAt == Init /\ [][NextRunAt]_vars

\* the webhook ingress receiving renewal failures of every attempt count
DelayHandlers == {"h1"}

DelayActions ==
  \/ \E h \in DelayHandlers, e \in AttemptEventIds : Deliver(h, e)
  \/ \E h \in DelayHandlers : HookLock(h) \/ HookRoute(h) \/ HookCreateTask(h) \/ HookLog(h)
  \/ RunCleanup
  \/ \E d \in QueueSteps : Tick(d)

NextDelay ==
  /\ DelayActions
  /\ Within(MaxDelayTasks, MaxDelayLogs, MaxDelayTicks)
  /\ TotalDeliveries' <= MaxDelayDeliveries

SpecDelay == Init /\ [][NextDelay]_vars

(* ------------------------------------------------------------------ *)
(* Properties                                                           *)
(* ------------------------------------------------------------------ *)

\* C1: for every task, at most one claimNextTask caller obtains the task
\* between the moment it is pending and the moment it is marked
\* completed/failed or reset to pending by the janitor.
C1_AtMostOneClaimant == \A t \in DOMAIN claimCount : claimCount[t] <= 1

\* every attemptEventLock call on event e has returned
LockCallsDone(e) ==
  /\ deliveries[e] > 0
  /\ \A h \in Handlers : ~(hpc[h] = "lock" /\ hevt[h].event = e)

\* C2 (as stated): for any event id, over any sequence of attemptEventLock
\* calls on it, redeliveries at any later time included, exactly one call
\* returns true.
C2_ExactlyOneTrueEver ==
  \A e \in EventIds : LockCallsDone(e) => lockTrue[e] = 1

\* C2 (amended): for any event id, exactly one attemptEventLock call returns
\* true for each ledger row of the event: one call while the row has never
\* been pruned, and one more after each pruning of the row by the janitor.
C2_OneTruePerLedgerRow ==
  \A e \in EventIds :
    /\ lockTrue[e] = pruned[e] + (IF e \in DOMAIN processedEvents THEN 1 ELSE 0)
    /\ LockCallsDone(e) => lockTrue[e] >= 1
    /\ pruned[e] = 0 => lockTrue[e] <= 1

C2_Witness ==
  \E e \in EventIds :
    /\ deliveries[e] >= 2
    /\ LockCallsDone(e)
    /\ lockTrue[e] = 1
    /\ pruned[e] = 0

DunningTasksOf(e) ==
  {i \in DOMAIN tasks : tasks[i].taskType = "dunning_retry" /\ tasks[i].eventId = e}

ScheduledLogsOf(e) ==
  {i \in DOMAIN logs : logs[i].metricType = "task_scheduled" /\ logs[i].src = e}

\* event e was delivered two or more times and every delivery was handled
Redelivered(e) ==
  /\ deliveries[e] >= 2
  /\ \A h \in Handlers : hpc[h] = "idle" \/ hevt[h].event # e

C4_StatusTransitions ==
  [][\A i \in DOMAIN tasks \cap DOMAIN tasks' :
       tasks'[i].status # tasks[i].status =>
         \/ tasks[i].status = "pending" /\ tasks'[i].status = "running"
         \/ tasks[i].status = "running" /\ tasks'[i].status \in {"completed", "failed"}
         \/ tasks[i].status = "running" /\ tasks'[i].status = "pending" /\ RunCleanup]_vars

\* the dunning_email_sent logs a step inserts
NewDunningLogs ==
  {i \in DOMAIN logs' \ DOMAIN logs : logs'[i].metricType = "dunning_email_sent"}

\* C5: a handler execution that started with the merchant's monthly count at
\* or above the plan limit writes no dunning_email_sent log, whatever the
\* task type.
C5_NoDunningLogOverQuota ==
  [][\A w \in Workers :
       (overAtStart[w] /\ pc'[w] # pc[w]) => NewDunningLogs = {}]_vars

\* C6: when the worker processes a dunning_retry task of a merchant at or
\* above its limit, then at the end of the iteration the task is failed,
\* exactly one quota_exceeded log was written, no email was handed to the
\* gateway and no dunning_email_sent log was added.
C6_QuotaPathOutcome ==
  [][\A w \in Workers :
       (cur[w].taskType = "dunning_retry" /\ overAtStart[w] /\ pc'[w] # pc[w]) =>
         /\ NewDunningLogs = {}
         /\ pc'[w] = "idle" =>
              /\ cur[w].id \in DOMAIN tasks'
              /\ tasks'[cur[w].id].status = "failed"
              /\ quotaLogs[w] = 1
              /\ ~mailed[w]]_vars

\* C7: when the finally block of a report_usage execution has run, whether
\* the reporting work succeeded or threw, a pending report_usage task of
\* merchant "system" with run_at = now + 5 min exists.
C7_ReporterSuccessor ==
  [][\A w \in Workers :
       (pc[w] \in {"ru_finally_ok", "ru_finally_err"} /\ pc'[w] # pc[w]) =>
         \E i \in DOMAIN tasks' :
           tasks'[i] = NewTask("system", "report_usage", now + REPORT_USAGE_INTERVAL, NoEvent)]_vars

\* C8: when the finally block of a merchant's send_weekly_digest execution
\* has run (digest sent, send failed, no email, or merchant row not found),
\* a pending send_weekly_digest task of the same merchant with
\* run_at = now + 7 days exists.
C8_DigestSuccessor ==
  [][\A w \in Workers :
       (pc[w] \in {"wd_finally_ok", "wd_finally_err"} /\ pc'[w] # pc[w]) =>
         \E i \in DOMAIN tasks' :
           tasks'[i] = NewTask(cur[w].merchantId, "send_weekly_digest",
                               now + WEEKLY_DIGEST_INTERVAL, NoEvent)]_vars

C10_OnlyLongRunning ==
  [][\A w \in Workers :
       (/\ RunCleanup
        /\ pc[w] \notin {"idle", "claiming"}
        /\ cur[w].id \in DOMAIN tasks
        /\ tasks[cur[w].id].status = "running"
        /\ now - cur[w].claimedAt < ZOMBIE_THRESHOLD_MINUTES)
       => tasks'[cur[w].id].status = "running"]_vars

\* emails_sent of daily_metrics(m, date), 0 without a row
EmailsSentAt(tbl, m, date) ==
  IF <<m, date>> \in DOMAIN tbl THEN tbl[<<m, date>>].emailsSent ELSE 0

\* the createUsageLog call in progress commits in this step
Commits == tx.pc = "commit" /\ tx'.pc = "idle" /\ ~tx'.raised

\* C11: createUsageLog(m, "dunning_email_sent", n) increases
\* daily_metrics(m, today).emails_sent by exactly n, for every amount n; a
\* call with another metric type leaves emails_sent unchanged.
C11_EmailsSentByAmount ==
  [][Commits =>
       EmailsSentAt(dailyMetrics', tx.merchantId, Today(tx.at))
         = EmailsSentAt(dailyMetrics, tx.merchantId, Today(tx.at))
           + (IF tx.metricType = "dunning_email_sent" THEN tx.amount ELSE 0)]_vars

Days == {logs[i].day : i \in DOMAIN logs} \cup {k[2] : k \in DOMAIN dailyMetrics}

DunningLogIdsOn(m, date) ==
  {i \in DOMAIN logs : /\ logs[i].merchantId = m
                       /\ logs[i].metricType = "dunning_email_sent"
                       /\ logs[i].day = date}

\* what a reader sees: every usage log has its rollup row, and emails_sent
\* is the sum of the dunning amounts of the day
RollupMatchesLogs ==
  /\ \A i \in DOMAIN logs : <<logs[i].merchantId, logs[i].day>> \in DOMAIN dailyMetrics
  /\ \A m \in MerchantIds, date \in Days :
       EmailsSentAt(dailyMetrics, m, date) = SumAmount(logs, DunningLogIdsOn(m, date))

\* C12: the usage_logs insert and the daily_metrics upsert of createUsageLog
\* are one transaction: a reader sees both or neither, and a call in which
\* a statement fails raises and persists neither.
C12_BothOrNeither ==
  /\ []RollupMatchesLogs
  /\ [][(tx.pc # "idle" /\ tx'.raised) =>
          (logs' = logs /\ dailyMetrics' = dailyMetrics)]_vars

\* a call raised after its usage_logs insert had succeeded
C12_Witness == tx.raised /\ tx.id # 0 /\ tx.id \notin DOMAIN logs

CountMatchesInserted ==
  \A m \in MerchantIds : getMonthlyDunningCount(m) = InsertedNow(m)

\* C13 (as stated): within a calendar month, over any sequence of
\* operations, getMonthlyDunningCount(m) never decreases and equals the sum
\* of the dunning_email_sent amounts inserted for m that month.
C13_NeverDecreases ==
  /\ []CountMatchesInserted
  /\ [][\A m \in MerchantIds :
          MonthStart(now') = MonthStart(now)
            => getMonthlyDunningCount(m)' >= getMonthlyDunningCount(m)]_vars

\* C13 (amended): within a calendar month, over any sequence of operations
\* other than the erasure of m, getMonthlyDunningCount(m) never decreases;
\* it equals the sum of the dunning_email_sent amounts inserted for m that
\* month since m was last erased.
C13_NeverDecreasesUnlessErased ==
  /\ []CountMatchesInserted
  /\ [][\A m \in MerchantIds :
          (MonthStart(now') = MonthStart(now) /\ (MerchantExists(m))')
            => getMonthlyDunningCount(m)' >= getMonthlyDunningCount(m)]_vars

\* two dunning logs of the month were inserted for a merchant
C13_Witness == Cardinality(DunningLogIds(logs, "m2", now)) >= 2

\* C14: reported_at of a usage log changes at most once, from null to a
\* timestamp, over any interleaving of report_usage executions: a log whose
\* reported_at is set is never written again.
C14_ReportedAtSetOnce ==
  [][\A i \in DOMAIN logs \cap DOMAIN logs' :
       logs[i].reportedAt # Null => logs'[i].reportedAt = logs[i].reportedAt]_vars

\* C15: every meter event carries the idempotency key "usage_log_" + id of
\* its log, so with PP deduplicating by key a log adds to billed usage at
\* most once however many times it is uploaded.
C15_BilledAtMostOnce == \A i \in DOMAIN billed : billed[i] <= 1

\* PP took the meter event of a log twice and billed it once
C15_Witness ==
  \E i \in DOMAIN billed : ppKeys[idempotencyKey(i)] >= 2 /\ billed[i] = 1

\* handler h takes a step of its call
Acts(h) == hpc'[h] # hpc[h]

\* C16: a customer.subscription.created or customer.subscription.updated
\* event that carries event.account never changes the subscription_plan_id
\* of any merchant.
C16_TenantEventKeepsPlans ==
  [][\A h \in Handlers :
       (/\ hpc[h] = "route"
        /\ Acts(h)
        /\ Event(hevt[h].event).type \in SubscriptionTypes
        /\ Event(hevt[h].event).account # "null")
       => \A m \in DOMAIN merchants :
            /\ m \in DOMAIN merchants'
            /\ merchants'[m].subscriptionPlanId = merchants[m].subscriptionPlanId]_vars

\* the subscription event of a connected account was answered while the
\* merchant of its customer id is on another plan than the event's
C16_Witness ==
  \E h \in Handlers :
    /\ hpc[h] = "idle"
    /\ hevt[h].event = "evt_3"
    /\ hevt[h].isFirstProcessing
    /\ hevt[h].action = "ignored"
    /\ \E m \in MerchantsByCustomerId(Event("evt_3").customer) :
         merchants[m].subscriptionPlanId # Event("evt_3").priceId

\* C18: a handleStripeWebhook call whose attemptEventLock returns false
\* creates no task, writes no usage log, changes no merchant field and
\* answers with action ignored.
C18_LockFalseDoesNothing ==
  [][\A h \in Handlers :
       (hpc[h] # "idle" /\ Acts(h) /\ ~hevt'[h].isFirstProcessing)
       => /\ tasks' = tasks
          /\ logs' = logs
          /\ merchants' = merchants
          /\ hpc'[h] = "idle"
          /\ hevt'[h].action = "ignored"]_vars

\* a redelivered invoice event, whose first delivery created a task, was
\* answered by a call whose lock returned false
C18_Witness ==
  \E h \in Handlers :
    /\ hpc[h] = "idle"
    /\ hevt[h].event = "evt_1"
    /\ ~hevt[h].isFirstProcessing
    /\ hevt[h].action = "ignored"
    /\ \E t \in DOMAIN tasks : tasks[t].eventId = "evt_1"

ReporterTasks ==
  {i \in DOMAIN tasks : /\ tasks[i].taskType = "report_usage"
                        /\ tasks[i].status \in {"pending", "running"}}

\* C17: after the startup bootstrap and the watchdog, exactly one
\* report_usage task that is pending or running exists: none is added when
\* one exists, and exactly one (merchant "system", run_at <= now) is created
\* when none exists, also when several replicas start at the same time.
\* Checked at the step that ends the startup of the last replica, when no
\* task has been completed or failed meanwhile.
C17_ExactlyOneReporter ==
  [][(/\ \E r \in Replicas : boot[r] # "up"
      /\ \A r \in Replicas : boot'[r] = "up"
      /\ \A i \in DOMAIN tasks' : tasks'[i].status \in {"pending", "running"})
       => /\ Cardinality(ReporterTasks') = 1
          /\ \A i \in ReporterTasks' :
               tasks'[i].merchantId = "system" /\ tasks'[i].runAt <= now']_vars

\* the pending tasks that are due and that no open transaction has locked
UnlockedReady ==
  {i \in DOMAIN tasks : /\ tasks[i].status = "pending"
                        /\ tasks[i].runAt <= now
                        /\ i \notin locked}

\* C19: claimNextTask only returns a task that was pending with
\* run_at <= now and that has the smallest run_at among the unlocked ready
\* tasks; it skips locked rows instead of waiting for them, and it gets no
\* task only when no unlocked ready task exists.
C19_ClaimsEarliestReady ==
  /\ [](\A c \in ApiCallers :
          pc[c] = "idle" => (UnlockedReady # {} <=> ENABLED <<ClaimSelect(c)>>_vars))
  /\ [][\A c \in ApiCallers :
          /\ (pc[c] = "idle" /\ pc'[c] = "claiming")
               => /\ sel'[c] \in UnlockedReady
                  /\ \A j \in UnlockedReady : tasks[sel'[c]].runAt <= tasks[j].runAt
          /\ (pc[c] = "claiming" /\ pc'[c] # "claiming")
               => /\ tasks[sel[c]].status = "pending"
                  /\ tasks[sel[c]].runAt <= now
                  /\ tasks'[sel[c]].status = "running"]_vars

\* two callers hold a selected row each: the second one skipped the row the
\* first one had locked
C19_Witness ==
  /\ pc["api"] = "claiming"
  /\ pc["api2"] = "claiming"
  /\ sel["api"] # sel["api2"]

\* C20: the run_at of a task never decreases, whatever operation writes
\* the task (claim, outcome update, janitor rescue, retry, worker/complete).
C20_RunAtNeverDecreases ==
  [][\A i \in DOMAIN tasks \cap DOMAIN tasks' : tasks'[i].runAt >= tasks[i].runAt]_vars

\* the janitor rescued a task a merchant had posted: run_at moved from
\* created_at to the time of the rescue
C20_Witness ==
  \E i \in DOMAIN tasks :
    /\ tasks[i].eventId = NoEvent
    /\ tasks[i].status = "pending"
    /\ tasks[i].runAt > tasks[i].createdAt

\* the delay the claim gives for an attempt count
StatedDelay(attemptCount) ==
  CASE attemptCount = 1 -> 3 * DAY
    [] attemptCount = 2 -> 5 * DAY
    [] attemptCount = 3 -> 7 * DAY
    [] OTHER -> 7 * DAY

\* C21: every enqueued dunning_retry task has run_at = ingress time +
\* delay(attempt_count), the delay being 3 days for attempt_count 1, 5 days
\* for 2, 7 days for 3 and 7 days for every other value of attempt_count.
C21_RunAtByAttemptCount ==
  [][\A h \in Handlers :
       (hpc[h] = "enqueue_task" /\ hpc'[h] = "enqueue_log")
       => /\ nextTaskId \in DOMAIN tasks'
          /\ tasks'[nextTaskId].taskType = "dunning_retry"
          /\ tasks'[nextTaskId].runAt
               = now + StatedDelay(Event(hevt[h].event).attemptCount)]_vars

\* the tasks a step inserts
CreatedTasks == DOMAIN tasks' \ DOMAIN tasks

\* C22: a POST /api/tasks request made while the session merchant's monthly
\* dunning count is at or above its plan's monthly limit, or while its
\* pending tasks are at or above its plan's queue limit, creates no task
\* and is answered with a 4xx status.
C22_RejectsOverLimit ==
  [][res' # res =>
       LET m == res'.merchantId
           plan == merchants[m].subscriptionPlanId
       IN (\/ getMonthlyDunningCount(m) >= getPlanLimit(plan)
           \/ getPendingTasksCount(m) >= getQueueLimit(plan))
          => /\ tasks' = tasks
             /\ res'.status \in 400..499]_vars

\* C23: a task created by POST /api/tasks has an allowed type, status
\* pending, run_at equal to the server's clock and the session's merchant
\* id, whatever the body carries; a body with another type creates no task.
C23_ServerForcesFields ==
  [][res' # res =>
       /\ \A i \in CreatedTasks :
            /\ tasks'[i].taskType \in ALLOWED_TYPES
            /\ tasks'[i].status = "pending"
            /\ tasks'[i].runAt = now
            /\ tasks'[i].merchantId = res'.merchantId
       /\ (CreatedTasks # {}) = (res'.status = 201)]_vars

\* a request whose body carries status completed, a run_at a day ahead and
\* another merchant's id was answered 201 after the clock had advanced
C23_Witness ==
  /\ res.status = 201
  /\ res.forged
  /\ now > 0
  /\ res.id \in DOMAIN tasks
  /\ tasks[res.id].createdAt = now
  /\ tasks[res.id].status = "pending"
  /\ tasks[res.id].merchantId = "m1"


\* C24: when cancelling the merchant's PP subscriptions fails, the erasure
\* request is answered 502 and ends there, and its step deletes no task,
\* usage log, daily metric or merchant row.
C24_CancelFailureAborts ==
  [][(erase.pc = "cancel" /\ erase'.pp = "failed")
       => /\ erase'.status = 502
          /\ erase'.pc = "idle"
          /\ UNCHANGED <<tasks, logs, dailyMetrics, merchants>>]_vars

\* the erasure of m1 was answered 502 and m1 keeps its row, a task and a log
C24_Witness ==
  /\ erase.pp = "failed"
  /\ erase.status = 502
  /\ erase.merchantId = "m1"
  /\ MerchantExists("m1")
  /\ \E i \in DOMAIN tasks : tasks[i].merchantId = "m1"
  /\ \E i \in DOMAIN logs : logs[i].merchantId = "m1"

\* the store holds no row of merchant m
NoRowOf(m) ==
  /\ ~MerchantExists(m)
  /\ \A i \in DOMAIN tasks : tasks[i].merchantId # m
  /\ \A i \in DOMAIN logs : logs[i].merchantId # m
  /\ \A k \in DOMAIN dailyMetrics : k[1] # m

\* C25: once the erasure of merchant m has been answered with success, no
\* task, usage log, daily metric or merchant row of m exists, then or at
\* any later time, whatever workers and webhook handlers were doing for m.
C25_ErasedStaysErased == \A m \in erase.done : NoRowOf(m)

\* m1 is erased while the worker is about to log a mail for a task of m1
\* and the webhook handler is about to enqueue a task for m1
C25_Witness ==
  /\ "m1" \in erase.done
  /\ pc["w1"] = "na_log"
  /\ cur["w1"].merchantId = "m1"
  /\ hpc["h1"] = "enqueue_task"
  /\ hevt["h1"].merchantId = "m1"


\* C26: a callback stores an account id and tokens only when its state
\* parameter equals the oauth_state the session merchant's row holds, which
\* is not null; the store leaves oauth_state null, so that a callback
\* carrying the same state afterwards changes no credentials.
C26_StoresOnlyOnStoredState ==
  [][\A r \in OAuthRequests :
       (oauth.req[r].pc = "store" /\ oauth'.req[r].pc = "log")
       => /\ StateAccepted(StoredState(r), oauth.req[r].state)
          /\ merchants'[oauth.req[r].merchantId].oauthState = NullState]_vars


\* C27: requests carrying the same auth user id that pass requireMerchant
\* at the same time leave one merchant row for that user, and each of them
\* goes on with that row: none of them is answered with an error.
C27_LoserFallsBack ==
  /\ \A u \in ProvUsers : Cardinality(MerchantsByClerkUserId(u)) <= 1
  /\ \A r \in ProvRequests :
       prov[r].pc \in {"next", "failed"}
       => /\ prov[r].pc = "next"
          /\ prov[r].merchantId \in MerchantsByClerkUserId(prov[r].userId)


\* C28: decrypt gives back every token that encrypt was given, and a
\* ciphertext whose iv, auth tag or body was altered is never decrypted:
\* decrypt does not return a plaintext for it.
C28_RoundTripAndTamper ==
  vault.decrypted =>
    IF vault.tampered THEN vault.out.parts = 3 /\ vault.out = vault.text
    ELSE vault.out = vault.plain


\* PP's answer is a permanent error: HTTP 4xx
Http4xx(statusCode) == statusCode \in 400..499

\* C29: a run of report_usage decides log by log: a log whose upload met a
\* permanent error (HTTP 4xx), or was answered with success or with
\* idempotency_key_in_use, is marked reported by that run; a log whose
\* upload met a transient error (5xx, network) keeps reported_at null; this
\* holds whatever the other logs of the run met, and a run fetches every
\* log that is still unreported.
C29_PerLogOutcome ==
  [][\A w \in QueueWorkers :
       /\ (pc[w] = "ru_mark" /\ pc'[w] = "ru_finally_ok")
          => \A b \in batch[w] :
               (b.id \in DOMAIN logs /\ b.answer # "none")
               => IF b.answer \in {"ok", "idempotency_key_in_use"} \/ Http4xx(b.statusCode)
                  THEN logs'[b.id].reportedAt # Null
                  ELSE logs'[b.id].reportedAt = Null
       /\ (pc[w] = "ru_fetch" /\ pc'[w] = "ru_process")
          => {b.id : b \in batch'[w]} = PendingLogIds]_vars

\* C30: when the monthly count the reporter reads before the upload of a
\* dunning log is at or above the plan limit, the log goes to the logs to
\* mark reported and PP receives no meter event for it.
C30_GuardSkipsUpload ==
  [][\A w \in QueueWorkers :
       (pc[w] = "ru_process" /\ pc'[w] = "ru_mark")
       => \A b \in batch[w] :
            (/\ b.metricType = "dunning_email_sent"
             /\ Reportable(b.merchantId)
             /\ getMonthlyDunningCount(b.merchantId)
                  >= getPlanLimit(merchants[b.merchantId].subscriptionPlanId))
            => /\ b.id \in reportedIds'[w]
               /\ idempotencyKey(b.id) \in DOMAIN ppKeys'
                    => /\ idempotencyKey(b.id) \in DOMAIN ppKeys
                       /\ ppKeys'[idempotencyKey(b.id)] = ppKeys[idempotencyKey(b.id)]]_vars

\* the reporter found the merchant at its limit and kept its log from PP
C30_Witness ==
  /\ pc["w1"] = "ru_mark"
  /\ OverQuota("m1")
  /\ batch["w1"] # {}
  /\ \A b \in batch["w1"] : b.id \in reportedIds["w1"] /\ b.answer = "none"
  /\ ppKeys = << >>

\* C31: the step that ends a worker iteration writes completed on the task the
\* worker claimed when processTask returned, and failed when it threw; in both
\* cases the worker is back at the head of the poll loop, holding no task, and
\* from there it claims the next ready task.
C31_OutcomeBecomesStatus ==
  [][\A w \in QueueWorkers :
       (pc[w] \in {"ok", "threw"} /\ pc'[w] # pc[w])
       => /\ cur[w].id \in DOMAIN tasks'
          /\ tasks'[cur[w].id].status = (IF pc[w] = "ok" THEN "completed" ELSE "failed")
          /\ pc'[w] = "idle"
          /\ cur'[w] = NoCur]_vars

\* the worker is back in the poll loop after one task whose handler returned
\* and one whose handler threw
C31_Witness ==
  /\ pc["w1"] = "idle"
  /\ \E i, j \in DOMAIN tasks :
       /\ tasks[i].status = "completed"
       /\ tasks[j].status = "failed"
       /\ tasks[j].taskType = "dunning_retry"

\* C32: in dunning_retry the dunning_email_sent log is inserted, and counted in
\* the merchant's monthly count, in the step before the send is attempted; a
\* failed send ends the task failed with the log and the count left as they
\* were; an iteration that stops at the invoice (paid, void) has written no log
\* and attempted no send, and ends the task completed.
C32_LogBeforeSend ==
  [][\A w \in QueueWorkers :
       (cur[w].taskType = "dunning_retry" /\ pc'[w] # pc[w])
       => \A m \in {cur[w].merchantId} :
          /\ pc'[w] = "dr_send"
             => /\ pc[w] = "dr_log"
                /\ ~mailed[w] /\ ~mailed'[w]
                /\ nextLogId \in DOMAIN logs' \ DOMAIN logs
                /\ logs'[nextLogId].merchantId = m
                /\ logs'[nextLogId].metricType = "dunning_email_sent"
                /\ (getMonthlyDunningCount(m))' = getMonthlyDunningCount(m) + 1
          /\ pc[w] = "dr_send"
             => /\ mailed'[w]
                /\ pc'[w] \in {"ok", "threw"}
                /\ logs' = logs
          /\ (pc[w] = "threw" /\ mailed[w])
             => /\ tasks'[cur[w].id].status = "failed"
                /\ logs' = logs
                /\ (getMonthlyDunningCount(m))' = getMonthlyDunningCount(m)
          /\ pc[w] \in {"dr_merchant", "dr_quota", "dr_invoice"} /\ pc'[w] # "dr_quota_fail"
             => logs' = logs /\ ~mailed'[w] /\ ~quotaHit'[w]
          /\ (pc[w] = "ok" /\ ~mailed[w] /\ ~quotaHit[w])
             => /\ tasks'[cur[w].id].status = "completed"
                /\ logs' = logs]_vars

\* a send failed after the log of the attempt was written
C32_Witness ==
  /\ pc["w1"] = "threw"
  /\ cur["w1"].taskType = "dunning_retry"
  /\ mailed["w1"]
  /\ \E i \in DOMAIN logs :
       /\ logs[i].merchantId = cur["w1"].merchantId
       /\ logs[i].metricType = "dunning_email_sent"
       /\ i = nextLogId - 1

(* ------------------------------------------------------------------ *)
(* Graceful shutdown (index.ts: shutdown, SIGTERM / SIGINT)             *)
(* ------------------------------------------------------------------ *)
Signals == {"SIGTERM", "SIGINT"}

ProcFrame ==
  UNCHANGED <<tx, boot, webVars, clients, ppVars, now, ticks, merchants, tasks, nextTaskId, logs,
              nextLogId, dailyMetrics, pc, cur, sel, batch, reportedIds, hookVars, histVars>>

\* shutdown(signal): httpServer.close(callback); the worker's timers and the
\* iteration in flight are not told
shutdown(signal) ==
  /\ proc = "up"
  /\ proc' = "closing"
  /\ UNCHANGED locked
  /\ ProcFrame

\* the callback of httpServer.close: process.exit(0), whatever the worker is
\* doing; the database ends the claim transaction of the lost connection
ServerClosed ==
  /\ proc = "closing"
  /\ proc' = "exited"
  /\ locked' = locked \ {sel[w] : w \in QueueWorkers}
  /\ ProcFrame

\* the process runs: its worker loop takes steps
Running == proc # "exited"

MaxShutdownTasks == 2
MaxShutdownLogs == 2
MaxShutdownTicks == 1

ShutdownActions ==
  \/ \E w \in QueueWorkers : Running /\ (ClaimSelect(w) \/ ClaimCommit(w))
  \/ \E w \in QueueWorkers : Running /\ QueueWorkerStep(w)
  \/ \E type \in ALLOWED_TYPES : proc = "up" /\ PostTask("m1", type)
  \/ \E signal \in Signals : shutdown(signal)
  \/ ServerClosed
  \/ \E d \in QueueSteps : Tick(d)

NextShutdown ==
  ShutdownActions /\ Within(MaxShutdownTasks, MaxShutdownLogs, MaxShutdownTicks)

SpecShutdown == Init /\ [][NextShutdown]_vars

\* C33: once the process has exited on a signal, no task is left in status
\* running: the exit waits for the worker iteration in flight.
C33_NoRunningAfterExit ==
  proc = "exited" => \A i \in DOMAIN tasks : tasks[i].status # "running"

(* ------------------------------------------------------------------ *)
(* Two worker loops (two replicas) and the janitor, no retry endpoint   *)
(* ------------------------------------------------------------------ *)
MaxDispatchTasks == 1
MaxDispatchLogs == 2
MaxDispatchTicks == 1

DispatchSteps == {ZOMBIE_THRESHOLD_MINUTES + 1}

DispatchActions ==
  \/ \E w \in Workers : ClaimSelect(w) \/ ClaimCommit(w)
  \/ \E w \in Workers : QueueWorkerStep(w)
  \/ PostTask("m1", "dunning_retry")
  \/ RunCleanup
  \/ \E d \in DispatchSteps : Tick(d)

NextDispatch ==
  DispatchActions /\ Within(MaxDispatchTasks, MaxDispatchLogs, MaxDispatchTicks)

SpecDispatch == Init /\ [][NextDispatch]_vars

\* C34: without a crash and without the retry endpoint a task is in the hands
\* of at most one worker: no two workers are in the handler of the same task.
C34_AtMostOneDispatch ==
  \A w, v \in Workers :
    (w # v /\ cur[w].id # NoTask) => cur[v].id # cur[w].id

(* ------------------------------------------------------------------ *)
(* The report_usage chain: two worker loops, janitor, (re)starts         *)
(* ------------------------------------------------------------------ *)
MaxChainTasks == 3
MaxChainLogs == 1
MaxChainTicks == 1

ChainUsage == {0}

ReporterStep(w) ==
  RU_Fetch(w) \/ RU_Process(w) \/ RU_Mark(w) \/ RU_Finally(w) \/ Finish(w)

ChainActions ==
  \/ \E w \in Workers : ClaimSelect(w) \/ ClaimCommit(w)
  \/ \E w \in Workers : ReporterStep(w)
  \/ bootstrapReporter
  \/ RunCleanup
  \/ \E d \in DispatchSteps : Tick(d)

NextChain == ChainActions /\ Within(MaxChainTasks, MaxChainLogs, MaxChainTicks)

SpecChain == InitWith(ChainUsage) /\ [][NextChain]_vars

\* the report_usage tasks that are pending or running
LiveReporters ==
  {i \in DOMAIN tasks : /\ tasks[i].taskType = "report_usage"
                        /\ tasks[i].status \in {"pending", "running"}}

\* C35: the report_usage chain never forks: whenever no worker is inside the
\* reporter (between its claim and its outcome update), at most one
\* report_usage task is pending or running.
C35_ChainNeverForks ==
  (\A w \in Workers : cur[w].taskType # "report_usage" /\ pc[w] = "idle")
    => Cardinality(LiveReporters) <= 1

(* ------------------------------------------------------------------ *)
(* StripeClientFactory: the tenant client cache                         *)
(* ------------------------------------------------------------------ *)
NoClient == "none"

\* getClient(tenantId): the account the returned client is scoped to, NoClient
\* when the call throws
getClient(m) ==
  IF m \in DOMAIN clients THEN clients[m]
  ELSE IF MerchantExists(m) /\ merchants[m].stripeConnectId # "null"
       THEN merchants[m].stripeConnectId
       ELSE NoClient

\* tenantClients after getClient(tenantId)
CacheAfterGet(m) ==
  IF m \in DOMAIN clients \/ getClient(m) = NoClient THEN clients
  ELSE clients @@ (m :> getClient(m))

(* ------------------------------------------------------------------ *)
(* POST /api/stripe/disconnect                                          *)
(* ------------------------------------------------------------------ *)
\* storage.deletePendingTasks
deletePendingTasks(m) ==
  Without(tasks, {i \in DOMAIN tasks : /\ tasks[i].merchantId = m
                                       /\ tasks[i].status \in {"pending", "running"}})

Disconnect(m) ==
  /\ m \in Sessions
  /\ merchants[m].stripeConnectId # "null"
  /\ \A i \in locked : tasks[i].merchantId # m
  /\ clients' = CacheAfterGet(m)
  /\ merchants' = [merchants EXCEPT ![m].stripeConnectId = "null",
                                    ![m].accessToken = "null"]
  /\ tasks' = deletePendingTasks(m)
  /\ WriteLog(m, "merchant_disconnected", 1, NoEvent)
  /\ UNCHANGED <<tx, boot, webVars, proc, ppVars, now, ticks, nextTaskId, locked, workerVars,
                 hookVars, claimCount, overAtStart, quotaHit, quotaLogs, mailed, lockTrue,
                 pruned, swept>>

(* ------------------------------------------------------------------ *)
(* The weekly digest chain with the task and disconnect endpoints       *)
(* ------------------------------------------------------------------ *)
MaxDigestTasks == 4
MaxDigestLogs == 1
MaxDigestTicks == 1

DigestUsage == {0}
DigestSessions == {"m1"}

DigestActions ==
  \/ \E w \in QueueWorkers : ClaimSelect(w) \/ ClaimCommit(w)
  \/ \E w \in QueueWorkers : SystemWorkerStep(w)
  \/ ensureSystemTasks
  \/ \E m \in DigestSessions, id \in 1..MaxDigestTasks : DeleteTask(m, id)
  \/ \E m \in DigestSessions : Disconnect(m)
  \/ RunCleanup
  \/ \E d \in DispatchSteps : Tick(d)

NextDigest == DigestActions /\ Within(MaxDigestTasks, MaxDigestLogs, MaxDigestTicks)

SpecDigest == InitWith(DigestUsage) /\ [][NextDigest]_vars

\* C36: a merchant that has a pending or running send_weekly_digest task has
\* one after every step that leaves the merchant in place.
C36_DigestChainKept ==
  [][\A m \in DOMAIN merchants \ {"system"} :
       (hasWeeklyDigestTask(m) /\ m \in DOMAIN merchants')
       => (hasWeeklyDigestTask(m))']_vars

(* ------------------------------------------------------------------ *)
(* A failed createTask in enqueueDunningTask and the redeliveries        *)
(* ------------------------------------------------------------------ *)
MaxRedeliveries == 3
MaxRedeliveryTasks == 2
MaxRedeliveryLogs == 3
MaxRedeliveryTicks == 1

RedeliveredEvent == "evt_1"
RedeliverySteps == {DAY}

\* storage.createTask raises (the database refuses the insert): the catch of
\* enqueueDunningTask answers action 'error'; the ledger row stays
HookCreateTaskFails(h) ==
  /\ hpc[h] = "enqueue_task"
  /\ deliveries[hevt[h].event] = 1
  /\ Answer(h, "error")
  /\ UNCHANGED <<processedEvents, deliveries, tasks, nextTaskId, claimCount, logs, nextLogId,
                 dailyMetrics, inserted, lockTrue>>
  /\ HookFrame

HandlerStep(h) == HookLock(h) \/ HookRoute(h) \/ HookCreateTask(h) \/ HookLog(h)

\* a further delivery of the event, past the deliveries that are counted
DeliverAgain(h, e) ==
  /\ hpc[h] = "idle"
  /\ deliveries[e] = MaxRedeliveries
  /\ hpc' = [hpc EXCEPT ![h] = "lock"]
  /\ hevt' = [hevt EXCEPT ![h] = [event |-> e, merchantId |-> "system",
                                   isFirstProcessing |-> FALSE, action |-> "none"]]
  /\ UNCHANGED <<deliveries, processedEvents, tasks, nextTaskId, logs, nextLogId, dailyMetrics,
                 inserted, claimCount, lockTrue>>
  /\ HookFrame

Redeliver ==
  \E h \in Handlers : Deliver(h, RedeliveredEvent) \/ DeliverAgain(h, RedeliveredEvent)

WithinRedelivery ==
  /\ Within(MaxRedeliveryTasks, MaxRedeliveryLogs, MaxRedeliveryTicks)
  /\ TotalDeliveries' <= MaxRedeliveries

RedeliveryActions ==
  \/ Redeliver
  \/ \E h \in Handlers : HandlerStep(h)
  \/ \E h \in Handlers : HookCreateTaskFails(h)
  \/ \E d \in RedeliverySteps : Tick(d)

NextRedelivery == RedeliveryActions /\ WithinRedelivery

SpecRedelivery == Init /\ [][NextRedelivery]_vars

\* every handler invocation runs to its answer, and PP delivers the event
\* again and again
SpecRedeliveryFair ==
  /\ SpecRedelivery
  /\ \A h \in Handlers : WF_vars(HandlerStep(h) /\ WithinRedelivery)
  /\ WF_vars(Redeliver /\ WithinRedelivery)

MaxBacklogTasks == 3
MaxBacklogTicks == 3

\* merchant m2 is connected and has no platform customer id: the reporter
\* skips its logs; it has sent BacklogSize mails this month, then m1 one
SkippedMerchant == "m2"
BacklogSize == PENDING_LOGS_LIMIT
LateLog == BacklogSize + 1

InitBacklog ==
  /\ InitRest
  /\ logs = [i \in 1..LateLog |->
               NewLogAt(0, IF i = LateLog THEN "m1" ELSE SkippedMerchant,
                        "dunning_email_sent", 1, NoEvent)]
  /\ nextLogId = LateLog + 1
  /\ dailyMetrics = (<<"m1", 0>> :> [recoveredCents |-> 0, emailsSent |-> 1])
                     @@ (<<SkippedMerchant, 0>> :> [recoveredCents |-> 0,
                                                    emailsSent |-> BacklogSize])
  /\ inserted = [m \in MerchantIds |->
                   [month |-> 0,
                    total |-> IF m = "m1" THEN 1
                              ELSE IF m = SkippedMerchant THEN BacklogSize ELSE 0]]

\* processReportUsage with PP accepting every meter event
ReporterStepAccepted(w) ==
  RU_Fetch(w) \/ RU_ProcessAccepted(w) \/ RU_Mark(w) \/ RU_Finally(w) \/ Finish(w)

BacklogSteps == {REPORT_USAGE_INTERVAL}

WithinBacklog ==
  /\ nextTaskId' <= MaxBacklogTasks + 1
  /\ ticks' <= MaxBacklogTicks

BacklogActions ==
  \/ \E w \in QueueWorkers : ClaimSelect(w) \/ ClaimCommit(w)
  \/ \E w \in QueueWorkers : ReporterStepAccepted(w)
  \/ bootstrapReporter
  \/ \E d \in BacklogSteps : Tick(d)

NextBacklog == BacklogActions /\ WithinBacklog

SpecBacklog == InitBacklog /\ [][NextBacklog]_vars

\* report_usage keeps running: the process starts, the worker loop polls
\* and runs its handler, time passes
SpecBacklogFair ==
  /\ SpecBacklog
  /\ WF_vars(NextBacklog)

\* the log is uploaded to PP or marked reported
Handled(i) == logs[i].reportedAt # Null \/ idempotencyKey(i) \in DOMAIN ppKeys

MaxEdgeTasks == 3
MaxEdgeLogs == 2
MaxEdgeTicks == 1

\* the merchant has sent one mail less than its plan allows
EdgeUsage == {19}

EdgeActions ==
  \/ \E w \in QueueWorkers : ClaimSelect(w) \/ ClaimCommit(w)
  \/ \E w \in QueueWorkers : QueueWorkerStep(w)
  \/ \E w \in QueueWorkers :
       RU_Fetch(w) \/ RU_ProcessAccepted(w) \/ RU_Mark(w) \/ RU_Finally(w)
  \/ PostTask("m1", "dunning_retry")
  \/ bootstrapReporter
  \/ \E d \in BacklogSteps : Tick(d)

NextEdge == EdgeActions /\ Within(MaxEdgeTasks, MaxEdgeLogs, MaxEdgeTicks)

SpecEdge == InitWith(EdgeUsage) /\ [][NextEdge]_vars

\* the merchant's monthly count just before log i was written
UsageBefore(i) ==
  SumAmount(logs, {j \in DunningLogIds(logs, logs[i].merchantId, now) : j < i})

\* C39: a dunning_email_sent log that was written while its merchant was
\* below the plan limit is not marked reported unless PP has received its
\* meter event.
C39_MarkedOnlyAfterUpload ==
  \A i \in DOMAIN logs :
    (/\ logs[i].metricType = "dunning_email_sent"
     /\ Reportable(logs[i].merchantId)
     /\ UsageBefore(i) < getPlanLimit(merchants[logs[i].merchantId].subscriptionPlanId)
     /\ logs[i].reportedAt # Null)
    => idempotencyKey(i) \in DOMAIN ppKeys

(* ------------------------------------------------------------------ *)
(* The tenant client cache across disconnect and reconnect               *)
(* ------------------------------------------------------------------ *)
MaxClientLogs == 3

\* a handler (dunning_retry, notify_action_required, a webhook) calls
\* factory.getClient(m)
UseClient(m) ==
  /\ clients' = CacheAfterGet(m)
  /\ UNCHANGED <<storeVars, tx, boot, webVars, proc, ppVars, now, ticks, workerVars, hookVars,
                 histVars>>

ClientRequests == {"c1"}

ClientActions ==
  \/ \E m \in OAuthSessions : UseClient(m)
  \/ \E m \in OAuthSessions : Disconnect(m)
  \/ \E m \in OAuthSessions : Authorize(m)
  \/ \E r \in ClientRequests, m \in OAuthSessions, state \in 1..MaxOAuthStates,
        code \in OAuthCodes : CB_Load(r, m, state, code)
  \/ \E r \in ClientRequests : CB_Check(r) \/ CB_Store(r) \/ CB_Log(r)
  \/ \E r \in ClientRequests, ok \in BOOLEAN : CB_Exchange(r, ok)

NextClients == ClientActions /\ nextLogId' <= MaxClientLogs + 1

SpecClients == Init /\ [][NextClients]_vars

\* C40: a getClient call that returns a client returns one scoped to the
\* merchant's current stripe_connect_id, in every state.
C40_ClientOfCurrentAccount ==
  \A m \in DOMAIN merchants :
    getClient(m) # NoClient => getClient(m) = merchants[m].stripeConnectId

====
